---------------------------- MODULE Spec2Model ----------------------------
(***************************************************************************)
(* The rules-and-state engine of the 3D chess game: the move rules         *)
(* (core/ChessRules.ts), the reducer (core/Reducer.ts), the data model     *)
(* (core/GameState.ts, core/Actions.ts) and the session that holds the     *)
(* current state (core/Game.ts).                                           *)
(*                                                                         *)
(* Conventions of the translation:                                         *)
(*  - arrays are sequences, so an index i of the source is i + 1 here and  *)
(*    findIndex's -1 is 0;                                                 *)
(*  - `Piece | null` is a sequence of at most one piece (<<>> is null);    *)
(*  - `string | null` is a string, NULL standing for null (no piece id of  *)
(*    the program is that string);                                         *)
(*  - object identity (newState !== this.state) is not a value of TLA+:    *)
(*    returnsSameReference says when applyAction hands back its argument.  *)
(***************************************************************************)
EXTENDS Integers, Sequences, FiniteSets, TLC

VARIABLES
    state,      \* Game.state: the current GameState
    listeners,  \* Game.listeners: the set of subscribed observers
    unsubscribers, \* the observers whose unsubscribe function subscribe has
                \* returned: the callers may call it at any time, and again
    calls,      \* for each observer, the states it was called with, in order,
                \* during the last operation of the session
    lastMover,  \* the player of the last accepted MOVE_PIECE if no END_TURN or
                \* RESET_GAME has been accepted since, 0 otherwise (history)
    last,       \* the last operation of the session and its argument (history)
    active      \* the observers that have subscribed and whose unsubscribe
                \* function has not been called since (history)

vars == <<state, listeners, unsubscribers, calls, lastMover, last, active>>

-----------------------------------------------------------------------------
(* Bounds of the model *)

\* END_TURN and MOVE_PIECE are dispatched only while the resulting turnNumber
\* is at most MaxTurn (turnNumber is unbounded in the program).
MaxTurn == 3

\* The intents dispatched name the first MaxIds piece ids of InputIds, or an
\* id no piece has.
MaxIds == 3

\* The observers of the session are 1..MaxObservers.
MaxObservers == 2

\* The boards of RulesSpec hold the piece under test and at most MaxOthers
\* other pieces.
MaxOthers == 2

-----------------------------------------------------------------------------
(* GameState.ts *)

NULL == "null"

BoardWidth == 8

BoardHeight == 8

PieceTypes == {"pawn", "rook", "knight", "bishop", "queen", "king"}

Position(x, y) == [x |-> x, y |-> y]

Tile(x, y) ==
    [id |-> "tile-" \o ToString(x) \o "-" \o ToString(y),
     position |-> Position(x, y),
     type |-> "normal"]

Piece(id, x, y, playerId, type) ==
    [id |-> id, position |-> Position(x, y), playerId |-> playerId,
     type |-> type, hasMoved |-> FALSE]

\* for (y...) for (x...) tiles.push(...)
initialTiles ==
    [i \in 1..(BoardWidth * BoardHeight) |->
        Tile((i - 1) % BoardWidth, (i - 1) \div BoardWidth)]

initialPieces ==
    << Piece("w-rook-1",   0, 0, 1, "rook"),
       Piece("w-knight-1", 1, 0, 1, "knight"),
       Piece("w-bishop-1", 2, 0, 1, "bishop"),
       Piece("w-queen",    3, 0, 1, "queen"),
       Piece("w-king",     4, 0, 1, "king"),
       Piece("w-bishop-2", 5, 0, 1, "bishop"),
       Piece("w-knight-2", 6, 0, 1, "knight"),
       Piece("w-rook-2",   7, 0, 1, "rook"),
       Piece("w-pawn-1",   0, 1, 1, "pawn"),
       Piece("w-pawn-2",   1, 1, 1, "pawn"),
       Piece("w-pawn-3",   2, 1, 1, "pawn"),
       Piece("w-pawn-4",   3, 1, 1, "pawn"),
       Piece("w-pawn-5",   4, 1, 1, "pawn"),
       Piece("w-pawn-6",   5, 1, 1, "pawn"),
       Piece("w-pawn-7",   6, 1, 1, "pawn"),
       Piece("w-pawn-8",   7, 1, 1, "pawn"),
       Piece("b-pawn-1",   0, 6, 2, "pawn"),
       Piece("b-pawn-2",   1, 6, 2, "pawn"),
       Piece("b-pawn-3",   2, 6, 2, "pawn"),
       Piece("b-pawn-4",   3, 6, 2, "pawn"),
       Piece("b-pawn-5",   4, 6, 2, "pawn"),
       Piece("b-pawn-6",   5, 6, 2, "pawn"),
       Piece("b-pawn-7",   6, 6, 2, "pawn"),
       Piece("b-pawn-8",   7, 6, 2, "pawn"),
       Piece("b-rook-1",   0, 7, 2, "rook"),
       Piece("b-knight-1", 1, 7, 2, "knight"),
       Piece("b-bishop-1", 2, 7, 2, "bishop"),
       Piece("b-queen",    3, 7, 2, "queen"),
       Piece("b-king",     4, 7, 2, "king"),
       Piece("b-bishop-2", 5, 7, 2, "bishop"),
       Piece("b-knight-2", 6, 7, 2, "knight"),
       Piece("b-rook-2",   7, 7, 2, "rook") >>

createInitialState ==
    [board |-> [width |-> BoardWidth, height |-> BoardHeight, tiles |-> initialTiles],
     pieces |-> initialPieces,
     currentPlayer |-> 1,
     selectedPieceId |-> NULL,
     validMoves |-> <<>>,
     turnNumber |-> 1,
     capturedPieces |-> <<>>]

-----------------------------------------------------------------------------
(* ChessRules.ts *)

\* Fault variant of isValidPosition: the upper limits are inclusive.
isValidPositionInclusive(pos, s) ==
    /\ pos.x >= 0
    /\ pos.x <= s.board.width
    /\ pos.y >= 0
    /\ pos.y <= s.board.height

isValidPosition(pos, s) ==
    /\ pos.x >= 0
    /\ pos.x < s.board.width
    /\ pos.y >= 0
    /\ pos.y < s.board.height

\* state.pieces.findIndex((p) => p.position.x === pos.x && p.position.y === pos.y):
\* the first index whose piece stands on pos, 0 when there is none.
findIndexAt(pieces, pos) ==
    LET hits == {i \in DOMAIN pieces :
                    pieces[i].position.x = pos.x /\ pieces[i].position.y = pos.y}
    IN  IF hits = {} THEN 0 ELSE CHOOSE i \in hits : \A j \in hits : i <= j

\* state.pieces.find(at pos) || null
getPieceAt(pos, s) ==
    LET i == findIndexAt(s.pieces, pos)
    IN  IF i = 0 THEN <<>> ELSE <<s.pieces[i]>>

\* Fault variant of isEnemyAt: the enemy is the enemy of the player on turn.
isEnemyAtOnTurn(pos, playerId, s) ==
    LET piece == getPieceAt(pos, s)
    IN  piece # <<>> /\ piece[1].playerId # s.currentPlayer

isEnemyAt(pos, playerId, s) ==
    LET piece == getPieceAt(pos, s)
    IN  piece # <<>> /\ piece[1].playerId # playerId

isEmpty(pos, s) == getPieceAt(pos, s) = <<>>

\* A pawn whose double step does not look at the square it passes over.
getPawnMovesJumps(piece, s) ==
    LET direction == IF piece.playerId = 1 THEN 1 ELSE -1
        x == piece.position.x
        y == piece.position.y
        forward1 == Position(x, y + direction)
        forward2 == Position(x, y + 2 * direction)
        diagLeft == Position(x - 1, y + direction)
        diagRight == Position(x + 1, y + direction)
        one ==
            IF isValidPosition(forward1, s) /\ isEmpty(forward1, s)
            THEN <<forward1>> ELSE <<>>
        two ==
            IF ~piece.hasMoved /\ isValidPosition(forward2, s) /\ isEmpty(forward2, s)
            THEN <<forward2>> ELSE <<>>
        left ==
            IF isValidPosition(diagLeft, s) /\ isEnemyAt(diagLeft, piece.playerId, s)
            THEN <<diagLeft>> ELSE <<>>
        right ==
            IF isValidPosition(diagRight, s) /\ isEnemyAt(diagRight, piece.playerId, s)
            THEN <<diagRight>> ELSE <<>>
    IN  one \o two \o left \o right

\* Fault variant of getPawnMoves: the diagonal squares are offered whenever
\* they are on the board.
getPawnMovesDiagonal(piece, s) ==
    LET direction == IF piece.playerId = 1 THEN 1 ELSE -1
        x == piece.position.x
        y == piece.position.y
        forward1 == Position(x, y + direction)
        forward2 == Position(x, y + 2 * direction)
        diagLeft == Position(x - 1, y + direction)
        diagRight == Position(x + 1, y + direction)
        forward ==
            IF isValidPosition(forward1, s) /\ isEmpty(forward1, s)
            THEN <<forward1>> \o
                 (IF ~piece.hasMoved /\ isValidPosition(forward2, s) /\ isEmpty(forward2, s)
                  THEN <<forward2>> ELSE <<>>)
            ELSE <<>>
        left == IF isValidPosition(diagLeft, s) THEN <<diagLeft>> ELSE <<>>
        right == IF isValidPosition(diagRight, s) THEN <<diagRight>> ELSE <<>>
    IN  forward \o left \o right

getPawnMoves(piece, s) ==
    LET direction == IF piece.playerId = 1 THEN 1 ELSE -1
        x == piece.position.x
        y == piece.position.y
        forward1 == Position(x, y + direction)
        forward2 == Position(x, y + 2 * direction)
        diagLeft == Position(x - 1, y + direction)
        diagRight == Position(x + 1, y + direction)
        forward ==
            IF isValidPosition(forward1, s) /\ isEmpty(forward1, s)
            THEN <<forward1>> \o
                 (IF ~piece.hasMoved /\ isValidPosition(forward2, s) /\ isEmpty(forward2, s)
                  THEN <<forward2>> ELSE <<>>)
            ELSE <<>>
        left ==
            IF isValidPosition(diagLeft, s) /\ isEnemyAt(diagLeft, piece.playerId, s)
            THEN <<diagLeft>> ELSE <<>>
        right ==
            IF isValidPosition(diagRight, s) /\ isEnemyAt(diagRight, piece.playerId, s)
            THEN <<diagRight>> ELSE <<>>
    IN  forward \o left \o right

Dir(dx, dy) == [dx |-> dx, dy |-> dy]

\* A sliding piece that goes on beyond the enemy piece it captures.
RECURSIVE slideBeyondCapture(_, _, _, _)
slideBeyondCapture(piece, s, dir, dist) ==
    LET pos == Position(piece.position.x + dir.dx * dist,
                        piece.position.y + dir.dy * dist)
        targetPiece == getPieceAt(pos, s)
    IN  IF ~isValidPosition(pos, s) THEN <<>>
        ELSE IF targetPiece = <<>> \/ targetPiece[1].playerId # piece.playerId
        THEN <<pos>> \o slideBeyondCapture(piece, s, dir, dist + 1)
        ELSE <<>>

\* The body of the while (true) loop of a sliding piece, from distance dist on.
RECURSIVE slide(_, _, _, _)
slide(piece, s, dir, dist) ==
    LET pos == Position(piece.position.x + dir.dx * dist,
                        piece.position.y + dir.dy * dist)
        targetPiece == getPieceAt(pos, s)
    IN  IF ~isValidPosition(pos, s) THEN <<>>
        ELSE IF targetPiece = <<>> THEN <<pos>> \o slide(piece, s, dir, dist + 1)
        ELSE IF targetPiece[1].playerId # piece.playerId THEN <<pos>>
        ELSE <<>>

\* for (const dir of directions) { let dist = 1; while (true) ... }
RECURSIVE slideAll(_, _, _)
slideAll(piece, s, directions) ==
    IF directions = <<>> THEN <<>>
    ELSE slide(piece, s, Head(directions), 1) \o slideAll(piece, s, Tail(directions))

rookDirections == << Dir(0, 1), Dir(0, -1), Dir(1, 0), Dir(-1, 0) >>

bishopDirections == << Dir(1, 1), Dir(1, -1), Dir(-1, 1), Dir(-1, -1) >>

getRookMoves(piece, s) == slideAll(piece, s, rookDirections)

getBishopMoves(piece, s) == slideAll(piece, s, bishopDirections)

getQueenMoves(piece, s) == getRookMoves(piece, s) \o getBishopMoves(piece, s)

\* A knight or king that goes to empty squares only.
RECURSIVE stepAllNoCapture(_, _, _)
stepAllNoCapture(piece, s, offsets) ==
    IF offsets = <<>> THEN <<>>
    ELSE LET offset == Head(offsets)
             pos == Position(piece.position.x + offset.dx,
                             piece.position.y + offset.dy)
             here ==
                IF isValidPosition(pos, s) /\ getPieceAt(pos, s) = <<>>
                THEN <<pos>> ELSE <<>>
         IN  here \o stepAllNoCapture(piece, s, Tail(offsets))

\* for (const offset of offsets) { ... } of the knight and of the king
RECURSIVE stepAll(_, _, _)
stepAll(piece, s, offsets) ==
    IF offsets = <<>> THEN <<>>
    ELSE LET offset == Head(offsets)
             pos == Position(piece.position.x + offset.dx,
                             piece.position.y + offset.dy)
             targetPiece == getPieceAt(pos, s)
             here ==
                IF ~isValidPosition(pos, s) THEN <<>>
                ELSE IF targetPiece = <<>> \/ targetPiece[1].playerId # piece.playerId
                THEN <<pos>>
                ELSE <<>>
         IN  here \o stepAll(piece, s, Tail(offsets))

knightOffsets ==
    << Dir(2, 1), Dir(2, -1), Dir(-2, 1), Dir(-2, -1),
       Dir(1, 2), Dir(1, -2), Dir(-1, 2), Dir(-1, -2) >>

kingOffsets ==
    << Dir(0, 1), Dir(0, -1), Dir(1, 0), Dir(-1, 0),
       Dir(1, 1), Dir(1, -1), Dir(-1, 1), Dir(-1, -1) >>

getKnightMoves(piece, s) == stepAll(piece, s, knightOffsets)

getKingMoves(piece, s) == stepAll(piece, s, kingOffsets)

\* Fault variant of getValidMoves: a piece of any other type moves as a king.
getValidMovesDefaultKing(piece, s) ==
    CASE piece.type = "pawn"   -> getPawnMoves(piece, s)
      [] piece.type = "rook"   -> getRookMoves(piece, s)
      [] piece.type = "knight" -> getKnightMoves(piece, s)
      [] piece.type = "bishop" -> getBishopMoves(piece, s)
      [] piece.type = "queen"  -> getQueenMoves(piece, s)
      [] OTHER                 -> getKingMoves(piece, s)

getValidMoves(piece, s) ==
    CASE piece.type = "pawn"   -> getPawnMoves(piece, s)
      [] piece.type = "rook"   -> getRookMoves(piece, s)
      [] piece.type = "knight" -> getKnightMoves(piece, s)
      [] piece.type = "bishop" -> getBishopMoves(piece, s)
      [] piece.type = "queen"  -> getQueenMoves(piece, s)
      [] piece.type = "king"   -> getKingMoves(piece, s)
      [] OTHER                 -> <<>>

\* validMoves.some((move) => move.x === pos.x && move.y === pos.y)
somePosition(moves, pos) ==
    \E i \in DOMAIN moves : moves[i].x = pos.x /\ moves[i].y = pos.y

isValidMove(piece, to, s) == somePosition(getValidMoves(piece, s), to)

-----------------------------------------------------------------------------
(* Actions.ts *)

selectPiece(pieceId) == [type |-> "SELECT_PIECE", pieceId |-> pieceId]

deselectPiece == [type |-> "DESELECT_PIECE"]

movePiece(pieceId, to) == [type |-> "MOVE_PIECE", pieceId |-> pieceId, to |-> to]

endTurn == [type |-> "END_TURN"]

resetGame == [type |-> "RESET_GAME"]

-----------------------------------------------------------------------------
(* Reducer.ts *)

\* state.pieces.findIndex((p) => p.id === pieceId): 0 when there is none
findIndexById(pieces, pieceId) ==
    LET hits == {i \in DOMAIN pieces : pieces[i].id = pieceId}
    IN  IF hits = {} THEN 0 ELSE CHOOSE i \in hits : \A j \in hits : i <= j

\* newPieces.splice(index, 1)
splice(seq, index) ==
    [i \in 1..(Len(seq) - 1) |-> IF i < index THEN seq[i] ELSE seq[i + 1]]

\* Fault variant of clearTiles: the tiles keep their tags.
clearTilesKeepsTags(tiles) == tiles

\* state.board.tiles.map((tile) => ({ ...tile, type: 'normal' }))
clearTiles(tiles) ==
    [i \in DOMAIN tiles |-> [tiles[i] EXCEPT !.type = "normal"]]

\* Fault variant of highlightTiles: the tag is 'highlighted'.
highlightTilesHighlighted(tiles, validMoves) ==
    [i \in DOMAIN tiles |->
        [tiles[i] EXCEPT !.type =
            IF somePosition(validMoves, tiles[i].position) THEN "highlighted" ELSE "normal"]]

\* Fault variant of highlightTiles: a highlighted tile stays highlighted.
highlightTilesKeepsOld(tiles, validMoves) ==
    [i \in DOMAIN tiles |->
        [tiles[i] EXCEPT !.type =
            IF somePosition(validMoves, tiles[i].position) \/ tiles[i].type = "valid-move"
            THEN "valid-move" ELSE "normal"]]

\* state.board.tiles.map((tile) => ({ ...tile, type: isValidMove ? 'valid-move' : 'normal' }))
highlightTiles(tiles, validMoves) ==
    [i \in DOMAIN tiles |->
        [tiles[i] EXCEPT !.type =
            IF somePosition(validMoves, tiles[i].position) THEN "valid-move" ELSE "normal"]]

\* Fault variant of nextPlayer: the players are counted upwards.
nextPlayerCounts(s) == s.currentPlayer + 1

\* Fault variant of nextPlayer: the player on turn stays on turn.
nextPlayerSame(s) == s.currentPlayer

\* const nextPlayer = state.currentPlayer === 1 ? 2 : 1
nextPlayer(s) == IF s.currentPlayer = 1 THEN 2 ELSE 1

\* Fault variant of nextTurnNumber: after the second turn the first follows.
nextTurnNumberWraps(s) ==
    IF s.currentPlayer = 2
    THEN (IF s.turnNumber >= 2 THEN 1 ELSE s.turnNumber + 1)
    ELSE s.turnNumber

\* Fault variant of nextTurnNumber: the counter advances on every half-move.
nextTurnNumberAlways(s) == s.turnNumber + 1

\* turnNumber: state.currentPlayer === 2 ? state.turnNumber + 1 : state.turnNumber
nextTurnNumber(s) == IF s.currentPlayer = 2 THEN s.turnNumber + 1 ELSE s.turnNumber

\* SELECT_PIECE: if (!piece || piece.playerId !== state.currentPlayer) return state
selectRejected(s, action) ==
    LET pieceIndex == findIndexById(s.pieces, action.pieceId)
    IN  pieceIndex = 0 \/ s.pieces[pieceIndex].playerId # s.currentPlayer

\* Fault variant of applySelectPiece: selecting the selected piece deselects.
applySelectPieceToggles(s, action) ==
    IF selectRejected(s, action) THEN s
    ELSE IF s.selectedPieceId = action.pieceId
    THEN [s EXCEPT !.selectedPieceId = NULL,
                   !.validMoves = <<>>,
                   !.board.tiles = [i \in DOMAIN s.board.tiles |->
                                        [s.board.tiles[i] EXCEPT !.type = "normal"]]]
    ELSE LET piece == s.pieces[findIndexById(s.pieces, action.pieceId)]
             validMoves == getValidMoves(piece, s)
         IN  [s EXCEPT !.selectedPieceId = action.pieceId,
                       !.validMoves = validMoves,
                       !.board.tiles = highlightTiles(s.board.tiles, validMoves)]

applySelectPiece(s, action) ==
    IF selectRejected(s, action) THEN s
    ELSE LET piece == s.pieces[findIndexById(s.pieces, action.pieceId)]
             validMoves == getValidMoves(piece, s)
         IN  [s EXCEPT !.selectedPieceId = action.pieceId,
                       !.validMoves = validMoves,
                       !.board.tiles = highlightTiles(s.board.tiles, validMoves)]

\* Fault variant of applyDeselectPiece: validMoves is not cleared.
applyDeselectPieceKeepsMoves(s) ==
    [s EXCEPT !.selectedPieceId = NULL,
              !.board.tiles = clearTiles(s.board.tiles)]

applyDeselectPiece(s) ==
    [s EXCEPT !.selectedPieceId = NULL,
              !.validMoves = <<>>,
              !.board.tiles = clearTiles(s.board.tiles)]

\* Fault variant of moveRejected: the ownership test is missing.
moveRejectedAnyOwner(s, action) ==
    LET pieceIndex == findIndexById(s.pieces, action.pieceId)
    IN  \/ pieceIndex = 0
        \/ ~isValidMove(s.pieces[pieceIndex], action.to, s)

\* Fault variant of moveRejected: only the selected piece may move.
moveRejectedUnlessSelected(s, action) ==
    LET pieceIndex == findIndexById(s.pieces, action.pieceId)
    IN  \/ pieceIndex = 0
        \/ s.pieces[pieceIndex].playerId # s.currentPlayer
        \/ s.selectedPieceId # action.pieceId
        \/ ~isValidMove(s.pieces[pieceIndex], action.to, s)

\* Fault variant of moveRejected: no move is accepted once a king is captured.
moveRejectedWhenKingLost(s, action) ==
    LET pieceIndex == findIndexById(s.pieces, action.pieceId)
    IN  \/ pieceIndex = 0
        \/ s.pieces[pieceIndex].playerId # s.currentPlayer
        \/ ~isValidMove(s.pieces[pieceIndex], action.to, s)
        \/ \E i \in DOMAIN s.capturedPieces : s.capturedPieces[i].type = "king"

\* MOVE_PIECE: the three early returns of the case
moveRejected(s, action) ==
    LET pieceIndex == findIndexById(s.pieces, action.pieceId)
    IN  \/ pieceIndex = 0
        \/ s.pieces[pieceIndex].playerId # s.currentPlayer
        \/ ~isValidMove(s.pieces[pieceIndex], action.to, s)

\* Fault variant of adjustedPieceIndex: the index of the mover is used as it
\* was before the splice.
adjustedPieceIndexStale(capturedPieceIndex, pieceIndex) == pieceIndex

\* const adjustedPieceIndex = capturedPieceIndex < pieceIndex ? pieceIndex - 1 : pieceIndex
adjustedPieceIndex(capturedPieceIndex, pieceIndex) ==
    IF capturedPieceIndex < pieceIndex THEN pieceIndex - 1 ELSE pieceIndex

\* Fault variant of movedPiece: hasMoved is not set.
movedPieceKeepsFlag(piece, to) == [piece EXCEPT !.position = to]

\* Fault variant of movedPiece: hasMoved is flipped.
movedPieceTogglesFlag(piece, to) ==
    [piece EXCEPT !.position = to, !.hasMoved = ~piece.hasMoved]

\* { ...piece, position: action.to, hasMoved: true }
movedPiece(piece, to) == [piece EXCEPT !.position = to, !.hasMoved = TRUE]

\* Fault variant of movePieces: the piece standing on the destination stays.
movePiecesKeepsCaptured(s, action) ==
    LET pieceIndex == findIndexById(s.pieces, action.pieceId)
    IN  [s.pieces EXCEPT ![pieceIndex] = movedPiece(s.pieces[pieceIndex], action.to)]

\* newPieces after the capture (if any) and the update of the moved piece
movePieces(s, action) ==
    LET pieceIndex == findIndexById(s.pieces, action.pieceId)
        capturedPieceIndex == findIndexAt(s.pieces, action.to)
    IN  IF capturedPieceIndex # 0
        THEN LET removed == splice(s.pieces, capturedPieceIndex)
                 adjusted == adjustedPieceIndex(capturedPieceIndex, pieceIndex)
             IN  [removed EXCEPT ![adjusted] = movedPiece(removed[adjusted], action.to)]
        ELSE [s.pieces EXCEPT ![pieceIndex] = movedPiece(s.pieces[pieceIndex], action.to)]

\* Fault variant of moveCapturedPieces: the captured piece is not recorded.
moveCapturedPiecesForgets(s, action) == s.capturedPieces

\* Fault variant of moveCapturedPieces: the moving piece is pushed instead of
\* the captured one.
moveCapturedPiecesPushesMover(s, action) ==
    LET capturedPieceIndex == findIndexAt(s.pieces, action.to)
    IN  IF capturedPieceIndex # 0
        THEN Append(s.capturedPieces, s.pieces[findIndexById(s.pieces, action.pieceId)])
        ELSE s.capturedPieces

\* newCapturedPieces
moveCapturedPieces(s, action) ==
    LET capturedPieceIndex == findIndexAt(s.pieces, action.to)
    IN  IF capturedPieceIndex # 0
        THEN Append(s.capturedPieces, s.pieces[capturedPieceIndex])
        ELSE s.capturedPieces

applyMovePiece(s, action) ==
    IF moveRejected(s, action) THEN s
    ELSE [s EXCEPT !.pieces = movePieces(s, action),
                   !.capturedPieces = moveCapturedPieces(s, action),
                   !.currentPlayer = nextPlayer(s),
                   !.selectedPieceId = NULL,
                   !.validMoves = <<>>,
                   !.turnNumber = nextTurnNumber(s),
                   !.board.tiles = clearTiles(s.board.tiles)]

\* Fault variant of applyEndTurn: the selection survives the end of the turn.
applyEndTurnKeepsSelection(s) ==
    [s EXCEPT !.currentPlayer = nextPlayer(s),
              !.turnNumber = nextTurnNumber(s)]

\* Fault variant of applyEndTurn: validMoves is not cleared.
applyEndTurnKeepsMoves(s) ==
    [s EXCEPT !.currentPlayer = nextPlayer(s),
              !.selectedPieceId = NULL,
              !.turnNumber = nextTurnNumber(s),
              !.board.tiles = clearTiles(s.board.tiles)]

applyEndTurn(s) ==
    [s EXCEPT !.currentPlayer = nextPlayer(s),
              !.selectedPieceId = NULL,
              !.validMoves = <<>>,
              !.turnNumber = nextTurnNumber(s),
              !.board.tiles = clearTiles(s.board.tiles)]

\* Fault variant of applyAction: RESET_GAME keeps the captured pieces.
applyActionResetKeepsCaptured(s, action) ==
    CASE action.type = "SELECT_PIECE"   -> applySelectPiece(s, action)
      [] action.type = "DESELECT_PIECE" -> applyDeselectPiece(s)
      [] action.type = "MOVE_PIECE"     -> applyMovePiece(s, action)
      [] action.type = "END_TURN"       -> applyEndTurn(s)
      [] action.type = "RESET_GAME"     ->
            [createInitialState EXCEPT !.capturedPieces = s.capturedPieces]
      [] OTHER                          -> s

applyAction(s, action) ==
    CASE action.type = "SELECT_PIECE"   -> applySelectPiece(s, action)
      [] action.type = "DESELECT_PIECE" -> applyDeselectPiece(s)
      [] action.type = "MOVE_PIECE"     -> applyMovePiece(s, action)
      [] action.type = "END_TURN"       -> applyEndTurn(s)
      [] action.type = "RESET_GAME"     -> createInitialState
      [] OTHER                          -> s

\* Fault variant of returnsSameReference: states are compared by value.
returnsSameReferenceByValue(s, action) == applyAction(s, action) = s

\* applyAction(s, action) is the object s itself (the `return state` paths),
\* not a new object
returnsSameReference(s, action) ==
    CASE action.type = "SELECT_PIECE"   -> selectRejected(s, action)
      [] action.type = "DESELECT_PIECE" -> FALSE
      [] action.type = "MOVE_PIECE"     -> moveRejected(s, action)
      [] action.type = "END_TURN"       -> FALSE
      [] action.type = "RESET_GAME"     -> FALSE
      [] OTHER                          -> TRUE

-----------------------------------------------------------------------------
(* GameState.ts: serializeState and deserializeState. A JSON text is the     *)
(* sequence of its tokens: the punctuation, the literals true, false and     *)
(* null, and the strings and numbers with their values. JSON.stringify       *)
(* writes the properties of an object in the order of their insertion,       *)
(* which createInitialState sets and the spreads of the reducer keep.        *)

Token(t, v) == [t |-> t, v |-> v]

punctuation(c) == <<Token(c, c)>>

jsonNumber(n) == <<Token("number", n)>>

jsonString(str) == <<Token("string", str)>>

jsonBoolean(b) == <<Token(IF b THEN "true" ELSE "false", "")>>

jsonNull == <<Token("null", "")>>

\* The texts of a sequence, separated by commas.
RECURSIVE commaSeparated(_)
commaSeparated(texts) ==
    IF texts = <<>> THEN <<>>
    ELSE IF Len(texts) = 1 THEN texts[1]
    ELSE LET half == Len(texts) \div 2
         IN  commaSeparated(SubSeq(texts, 1, half)) \o punctuation(",")
                \o commaSeparated(SubSeq(texts, half + 1, Len(texts)))

\* An array of the given element texts.
jsonArray(texts) == punctuation("[") \o commaSeparated(texts) \o punctuation("]")

\* A property: "key":text
jsonProperty(key, text) == jsonString(key) \o punctuation(":") \o text

\* An object of the given property texts.
jsonObject(properties) ==
    punctuation("{") \o commaSeparated(properties) \o punctuation("}")

stringifyPosition(pos) ==
    jsonObject(<< jsonProperty("x", jsonNumber(pos.x)),
                  jsonProperty("y", jsonNumber(pos.y)) >>)

\* Fault variant of stringifyTile: the tag of a tile is not saved.
stringifyTileUntagged(tile) ==
    jsonObject(<< jsonProperty("id", jsonString(tile.id)),
                  jsonProperty("position", stringifyPosition(tile.position)),
                  jsonProperty("type", jsonString("normal")) >>)

stringifyTile(tile) ==
    jsonObject(<< jsonProperty("id", jsonString(tile.id)),
                  jsonProperty("position", stringifyPosition(tile.position)),
                  jsonProperty("type", jsonString(tile.type)) >>)

stringifyPiece(piece) ==
    jsonObject(<< jsonProperty("id", jsonString(piece.id)),
                  jsonProperty("position", stringifyPosition(piece.position)),
                  jsonProperty("playerId", jsonNumber(piece.playerId)),
                  jsonProperty("type", jsonString(piece.type)),
                  jsonProperty("hasMoved", jsonBoolean(piece.hasMoved)) >>)

stringifyBoard(board) ==
    jsonObject(<< jsonProperty("width", jsonNumber(board.width)),
                  jsonProperty("height", jsonNumber(board.height)),
                  jsonProperty("tiles",
                      jsonArray([i \in DOMAIN board.tiles |-> stringifyTile(board.tiles[i])])) >>)

\* serializeState(state): JSON.stringify(state)
serializeState(s) ==
    jsonObject(<<
        jsonProperty("board", stringifyBoard(s.board)),
        jsonProperty("pieces",
            jsonArray([i \in DOMAIN s.pieces |-> stringifyPiece(s.pieces[i])])),
        jsonProperty("currentPlayer", jsonNumber(s.currentPlayer)),
        jsonProperty("selectedPieceId",
            IF s.selectedPieceId = NULL THEN jsonNull ELSE jsonString(s.selectedPieceId)),
        jsonProperty("validMoves",
            jsonArray([i \in DOMAIN s.validMoves |-> stringifyPosition(s.validMoves[i])])),
        jsonProperty("turnNumber", jsonNumber(s.turnNumber)),
        jsonProperty("capturedPieces",
            jsonArray([i \in DOMAIN s.capturedPieces |-> stringifyPiece(s.capturedPieces[i])])) >>)

\* JSON.parse reads the text token by token; it is written here as the
\* machine that does so: the containers that are open (stack), what may come
\* next (expect), and in the end the value read or a SyntaxError.
Parser(i, expect, stack, status, value) ==
    [i |-> i, expect |-> expect, stack |-> stack, status |-> status, value |-> value]

\* An open array or object: the elements or members read so far, and the key
\* of the member being read.
Frame(kind, acc, key) == [kind |-> kind, acc |-> acc, key |-> key]

\* The kind of the token at index i of text, "" beyond its end.
tokenAt(text, i) == IF i \in DOMAIN text THEN text[i].t ELSE ""

failed(p) == [p EXCEPT !.status = "error"]

\* The parser after the value v has been read to its end: it is the value
\* of the text, or an element of the open array, or the value of the pending
\* key of the open object (a repeated key keeps its last value).
completed(p, v) ==
    IF p.stack = <<>> THEN [p EXCEPT !.i = p.i + 1, !.status = "done", !.value = v]
    ELSE LET top == p.stack[Len(p.stack)]
             acc == IF top.kind = "array" THEN Append(top.acc, v)
                    ELSE (top.key :> v) @@ top.acc
         IN  [p EXCEPT !.i = p.i + 1,
                       !.expect = "commaOrEnd",
                       !.stack[Len(p.stack)] = Frame(top.kind, acc, "")]

\* The parser after the open container has been closed.
closed(p) ==
    completed([p EXCEPT !.stack = SubSeq(p.stack, 1, Len(p.stack) - 1)],
              p.stack[Len(p.stack)].acc)

opened(p, kind) ==
    [p EXCEPT !.i = p.i + 1,
              !.expect = IF kind = "array" THEN "valueOrEnd" ELSE "keyOrEnd",
              !.stack = Append(p.stack, Frame(kind, <<>>, ""))]

\* One token is read: objects become functions of their keys, arrays
\* sequences, null NULL.
parseStep(text, p) ==
    LET t == tokenAt(text, p.i)
    IN  IF p.status # "reading" \/ t = ""
        THEN (IF p.status = "done" /\ t = "" THEN p ELSE failed(p))
        ELSE CASE p.expect \in {"value", "valueOrEnd"} ->
                CASE t \in {"number", "string"} -> completed(p, text[p.i].v)
                  [] t = "true"  -> completed(p, TRUE)
                  [] t = "false" -> completed(p, FALSE)
                  [] t = "null"  -> completed(p, NULL)
                  [] t = "["     -> opened(p, "array")
                  [] t = "{"     -> opened(p, "object")
                  [] t = "]" /\ p.expect = "valueOrEnd" -> closed(p)
                  [] OTHER       -> failed(p)
          [] p.expect \in {"key", "keyOrEnd"} ->
                CASE t = "string" ->
                        [p EXCEPT !.i = p.i + 1, !.expect = "colon",
                                  !.stack[Len(p.stack)].key = text[p.i].v]
                  [] t = "}" /\ p.expect = "keyOrEnd" -> closed(p)
                  [] OTHER -> failed(p)
          [] p.expect = "colon" ->
                IF t = ":" THEN [p EXCEPT !.i = p.i + 1, !.expect = "value"]
                ELSE failed(p)
          [] p.expect = "commaOrEnd" ->
                LET kind == p.stack[Len(p.stack)].kind
                IN  CASE t = "," ->
                            [p EXCEPT !.i = p.i + 1,
                                      !.expect = IF kind = "array" THEN "value" ELSE "key"]
                      [] t = "]" /\ kind = "array"  -> closed(p)
                      [] t = "}" /\ kind = "object" -> closed(p)
                      [] OTHER -> failed(p)

\* n tokens are read.
RECURSIVE parseSteps(_, _, _)
parseSteps(text, p, n) ==
    IF n <= 1 THEN (IF n = 1 THEN parseStep(text, p) ELSE p)
    ELSE LET half == parseSteps(text, p, n \div 2)
         IN  IF half.status = "error" THEN half
             ELSE parseSteps(text, half, n - (n \div 2))

\* The outcome of JSON.parse: a value, or a SyntaxError.
Parsed(value) == [ok |-> TRUE, value |-> value]

SyntaxError == [ok |-> FALSE, value |-> NULL]

\* JSON.parse(json): the value of the whole text, or a SyntaxError when the
\* text ends early, goes on after its value, or has a token out of place.
parse(text) ==
    LET end == parseSteps(text, Parser(1, "value", <<>>, "reading", NULL), Len(text) + 1)
    IN  IF end.status = "done" THEN Parsed(end.value) ELSE SyntaxError

\* deserializeState(json): JSON.parse(json) as GameState
deserializeState(text) == parse(text)

-----------------------------------------------------------------------------
(* Reducer.ts, statement by statement over the objects of the JavaScript     *)
(* heap. A GameState is an object whose board, pieces, capturedPieces and    *)
(* validMoves properties hold references; the board object refers to the     *)
(* array of tile objects, pieces and capturedPieces are arrays of references *)
(* to piece objects. A reference is an index of the heap, an allocation      *)
(* appends a cell. The reducer assigns to no property of an object: what it  *)
(* does in place is push (line 96), splice (line 97) and the assignment to   *)
(* an array element (lines 103, 110); positions are therefore kept as values *)
(* inside the tile and piece objects and inside validMoves.                  *)

Object(fields) == [fields |-> fields]

Array(items) == [items |-> items]

Allocation(heap, ref) == [heap |-> heap, ref |-> ref]

\* An object literal or array literal: a new cell.
allocate(heap, cell) == Allocation(Append(heap, cell), Len(heap) + 1)

\* A new array of new objects with the given property values, as
\* array.map((x) => ({ ...x, ... })) builds it.
allocateArrayOf(heap, values) ==
    LET objects == [i \in DOMAIN values |-> Object(values[i])]
        refs == [i \in DOMAIN values |-> Len(heap) + i]
    IN  allocate(heap \o objects, Array(refs))

\* The property values of the objects an array refers to.
valuesAt(heap, ref) ==
    [i \in DOMAIN heap[ref].items |-> heap[heap[ref].items[i]].fields]

\* The objects of a GameState with the value s, newly allocated, as
\* createInitialState() allocates them.
allocateState(heap, s) ==
    LET tiles == allocateArrayOf(heap, s.board.tiles)
        board == allocate(tiles.heap, Object([s.board EXCEPT !.tiles = tiles.ref]))
        pieces == allocateArrayOf(board.heap, s.pieces)
        capturedPieces == allocateArrayOf(pieces.heap, s.capturedPieces)
        validMoves == allocate(capturedPieces.heap, Array(s.validMoves))
    IN  allocate(validMoves.heap,
                 Object([s EXCEPT !.board = board.ref,
                                  !.pieces = pieces.ref,
                                  !.capturedPieces = capturedPieces.ref,
                                  !.validMoves = validMoves.ref]))

\* The value of the GameState object at ref, read through its references.
valueAt(heap, ref) ==
    LET object == heap[ref].fields
        board == heap[object.board].fields
    IN  [object EXCEPT !.board = [board EXCEPT !.tiles = valuesAt(heap, board.tiles)],
                       !.pieces = valuesAt(heap, object.pieces),
                       !.capturedPieces = valuesAt(heap, object.capturedPieces),
                       !.validMoves = heap[object.validMoves].items]

\* Fault variant of spreadArray: the array itself instead of a copy of it.
spreadArrayAliases(heap, ref) == Allocation(heap, ref)

\* [...array]: a new array with the same elements
spreadArray(heap, ref) == allocate(heap, Array(heap[ref].items))

\* array.push(item), in place
push(heap, ref, item) == [heap EXCEPT ![ref].items = Append(@, item)]

\* array.splice(index, 1), in place
spliceInPlace(heap, ref, index) == [heap EXCEPT ![ref].items = splice(@, index)]

\* array[index] = item, in place
assignElement(heap, ref, index, item) == [heap EXCEPT ![ref].items[index] = item]

\* { ...state, <properties>, board: { ...state.board, tiles: newTiles } } with
\* newTiles the array of new tile objects with the values newTiles
withNewTiles(heap, properties, newTiles) ==
    LET tiles == allocateArrayOf(heap, newTiles)
        board == allocate(tiles.heap,
                          Object([heap[properties.board].fields EXCEPT !.tiles = tiles.ref]))
    IN  allocate(board.heap, Object([properties EXCEPT !.board = board.ref]))

\* case 'SELECT_PIECE' (lines 18-48)
selectPieceInHeap(heap, ref, action) ==
    LET s == valueAt(heap, ref)
    IN  IF selectRejected(s, action) THEN Allocation(heap, ref)
        ELSE LET piece == s.pieces[findIndexById(s.pieces, action.pieceId)]
                 moves == getValidMoves(piece, s)
                 validMoves == allocate(heap, Array(moves))
             IN  withNewTiles(validMoves.heap,
                              [heap[ref].fields EXCEPT !.selectedPieceId = action.pieceId,
                                                       !.validMoves = validMoves.ref],
                              highlightTiles(s.board.tiles, moves))

\* validMoves: [] with the other properties of the result
noValidMoves(heap, properties) ==
    LET validMoves == allocate(heap, Array(<<>>))
    IN  Allocation(validMoves.heap, [properties EXCEPT !.validMoves = validMoves.ref])

\* case 'DESELECT_PIECE' (lines 50-66)
deselectPieceInHeap(heap, ref) ==
    LET s == valueAt(heap, ref)
        cleared == noValidMoves(heap, [heap[ref].fields EXCEPT !.selectedPieceId = NULL])
    IN  withNewTiles(cleared.heap, cleared.ref, clearTiles(s.board.tiles))

\* case 'MOVE_PIECE' (lines 68-139)
movePieceInHeap(heap, ref, action) ==
    LET s == valueAt(heap, ref)
        object == heap[ref].fields
    IN  IF moveRejected(s, action) THEN Allocation(heap, ref)
        ELSE LET pieceIndex == findIndexById(s.pieces, action.pieceId)
                 capturedPieceIndex == findIndexAt(s.pieces, action.to)
                 newPieces == spreadArray(heap, object.pieces)
                 newCapturedPieces == spreadArray(newPieces.heap, object.capturedPieces)
                 copied == newCapturedPieces.heap
                 capturedPiece == copied[newPieces.ref].items[capturedPieceIndex]
                 pushed == push(copied, newCapturedPieces.ref, capturedPiece)
                 spliced == spliceInPlace(pushed, newPieces.ref, capturedPieceIndex)
                 adjusted == adjustedPieceIndex(capturedPieceIndex, pieceIndex)
                 afterCapture ==
                     LET moved == allocate(spliced,
                                     Object(movedPiece(
                                         spliced[spliced[newPieces.ref].items[adjusted]].fields,
                                         action.to)))
                     IN  assignElement(moved.heap, newPieces.ref, adjusted, moved.ref)
                 afterMove ==
                     LET moved == allocate(copied,
                                     Object(movedPiece(s.pieces[pieceIndex], action.to)))
                     IN  assignElement(moved.heap, newPieces.ref, pieceIndex, moved.ref)
                 updated == IF capturedPieceIndex # 0 THEN afterCapture ELSE afterMove
                 cleared == noValidMoves(updated,
                                [object EXCEPT !.pieces = newPieces.ref,
                                               !.capturedPieces = newCapturedPieces.ref,
                                               !.currentPlayer = nextPlayer(s),
                                               !.selectedPieceId = NULL,
                                               !.turnNumber = nextTurnNumber(s)])
             IN  withNewTiles(cleared.heap, cleared.ref, clearTiles(s.board.tiles))

\* case 'END_TURN' (lines 141-161)
endTurnInHeap(heap, ref) ==
    LET s == valueAt(heap, ref)
        cleared == noValidMoves(heap,
                       [heap[ref].fields EXCEPT !.currentPlayer = nextPlayer(s),
                                                !.selectedPieceId = NULL,
                                                !.turnNumber = nextTurnNumber(s)])
    IN  withNewTiles(cleared.heap, cleared.ref, clearTiles(s.board.tiles))

\* applyAction(state, action) with state the object at ref: the heap after the
\* call and the reference it returns
applyActionInHeap(heap, ref, action) ==
    CASE action.type = "SELECT_PIECE"   -> selectPieceInHeap(heap, ref, action)
      [] action.type = "DESELECT_PIECE" -> deselectPieceInHeap(heap, ref)
      [] action.type = "MOVE_PIECE"     -> movePieceInHeap(heap, ref, action)
      [] action.type = "END_TURN"       -> endTurnInHeap(heap, ref)
      [] action.type = "RESET_GAME"     -> allocateState(heap, createInitialState)
      [] OTHER                          -> Allocation(heap, ref)

-----------------------------------------------------------------------------
(* BoardView.ts: the materials of the tile meshes. main.ts subscribes the    *)
(* renderer to the session as soon as both exist, so the view receives the   *)
(* state of the session at once (its first update, which builds the meshes)  *)
(* and then every state the session announces.                               *)

lightTileMaterial == "lightTileMaterial"

darkTileMaterial == "darkTileMaterial"

highlightedMaterial == "highlightedMaterial"

\* const isLight = (x + y) % 2 === 0; isLight ? lightTileMaterial : darkTileMaterial
squareMaterial(tile) ==
    IF (tile.position.x + tile.position.y) % 2 = 0
    THEN lightTileMaterial ELSE darkTileMaterial

\* new BoardView(group): no meshes, not initialized
BoardView == [initialized |-> FALSE, tileMeshes |-> <<>>]

\* The last tile of tiles with the identifier id: the one whose turn in the
\* loop over the tiles comes last.
lastTile(tiles, id) ==
    tiles[CHOOSE i \in DOMAIN tiles :
            /\ tiles[i].id = id
            /\ \A j \in DOMAIN tiles : tiles[j].id = id => j <= i]

\* initializeBoard(state): a mesh for each tile, in the material of its square
initializeBoard(view, s) ==
    [initialized |-> TRUE,
     tileMeshes |-> [id \in {s.board.tiles[i].id : i \in DOMAIN s.board.tiles} |->
                        squareMaterial(lastTile(s.board.tiles, id))]]

\* tileMaterial as the tags of the reducer call for: a tile tagged
\* 'valid-move' is highlighted as well.
tileMaterialOfTag(tile) ==
    IF tile.type \in {"highlighted", "valid-move"} THEN highlightedMaterial
    ELSE squareMaterial(tile)

\* if (tile.type === 'highlighted') mesh.material = highlightedMaterial;
\* else mesh.material = isLight ? lightTileMaterial : darkTileMaterial
tileMaterial(tile) ==
    IF tile.type = "highlighted" THEN highlightedMaterial
    ELSE squareMaterial(tile)

\* update(state): the first call builds the meshes and returns; a later call
\* sets the material of the mesh of every tile of the state that has one.
update(view, s) ==
    IF ~view.initialized THEN initializeBoard(view, s)
    ELSE [view EXCEPT !.tileMeshes =
            [id \in DOMAIN view.tileMeshes |->
                IF \E i \in DOMAIN s.board.tiles : s.board.tiles[i].id = id
                THEN tileMaterial(lastTile(s.board.tiles, id))
                ELSE view.tileMeshes[id]]]

-----------------------------------------------------------------------------
(* Game.ts: the session, driven by the intents of its callers *)

\* The piece ids the dispatched intents may name, in the order in which
\* MaxIds admits them.
InputIds ==
    << "w-pawn-5", "b-pawn-4", "w-rook-1", "b-pawn-5", "b-bishop-1", "w-knight-1" >>

UnknownId == "no-such-piece"

PieceIds == {InputIds[i] : i \in {j \in DOMAIN InputIds : j <= MaxIds}}

OnBoard ==
    {Position(x, y) : x \in 0..(BoardWidth - 1), y \in 0..(BoardHeight - 1)}

\* One square off each edge of the board.
OffBoard ==
    {Position(-1, 3), Position(BoardWidth, 4), Position(3, -1), Position(4, BoardHeight)}

\* The MOVE_PIECE intents dispatched: an input piece to any square of the
\* board or off it, and the unknown id to a few squares.
MoveIntents ==
    {movePiece(pieceId, to) : pieceId \in PieceIds, to \in OnBoard \cup OffBoard}
    \cup {movePiece(UnknownId, to) : to \in {Position(4, 3), Position(3, 4)} \cup OffBoard}

\* The history variable after dispatch(action) from session state s.
moverAfter(s, action) ==
    IF returnsSameReference(s, action) THEN lastMover
    ELSE CASE action.type = "MOVE_PIECE" -> s.currentPlayer
           [] action.type \in {"END_TURN", "RESET_GAME"} -> 0
           [] OTHER -> lastMover

\* The observers that may subscribe to the session.
Observers == 1..MaxObservers

\* No observer is called.
noCalls == [l \in Observers |-> <<>>]

\* notifyListeners(): for (const listener of this.listeners) listener(this.state),
\* with this.state = s and this.listeners = ls.
notifyListeners(s, ls) == [l \in Observers |-> IF l \in ls THEN <<s>> ELSE <<>>]

\* The record of an operation of the session: its name and its argument.
Operation(op, arg) == [op |-> op, arg |-> arg]

\* new Game(initialState): this.state = initialState; no listener yet.
construct(initialState) ==
    /\ state = initialState
    /\ listeners = {}
    /\ unsubscribers = {}
    /\ calls = noCalls
    /\ lastMover = 0
    /\ last = Operation("constructor", NULL)
    /\ active = {}

\* constructor(): this.state = createInitialState()
Init == construct(createInitialState)

\* if (newState !== this.state) { ...; this.notifyListeners(); }
dispatchNotifiesAlways(action) == notifyListeners(applyAction(state, action), listeners)

dispatchCalls(action) ==
    IF returnsSameReference(state, action) THEN noCalls
    ELSE notifyListeners(applyAction(state, action), listeners)

\* Fault variant of dispatch: the session also drops the selection, whatever
\* the intent.
dispatchDeselecting(action) ==
    LET newState == applyAction(applyAction(state, action), deselectPiece)
    IN  /\ newState.turnNumber <= MaxTurn
        /\ state' = newState
        /\ calls' = dispatchCalls(action)
        /\ lastMover' = moverAfter(state, action)
        /\ UNCHANGED <<listeners, unsubscribers, active>>

\* dispatch(action): const newState = applyAction(this.state, action);
\* if (newState !== this.state) { this.state = newState; this.notifyListeners(); }
\* A rejected intent leaves the session as it is.
dispatch(action) ==
    LET newState == applyAction(state, action)
    IN  /\ newState.turnNumber <= MaxTurn
        /\ state' = newState
        /\ calls' = dispatchCalls(action)
        /\ lastMover' = moverAfter(state, action)
        /\ UNCHANGED <<listeners, unsubscribers, active>>

\* The callers of Spec keep no record of the intent they dispatched.
dispatched == last' = Operation("dispatch", NULL)

SelectPiece ==
    \E pieceId \in PieceIds \cup {UnknownId} : dispatch(selectPiece(pieceId)) /\ dispatched

DeselectPiece == dispatch(deselectPiece) /\ dispatched

MovePiece == \E action \in MoveIntents : dispatch(action) /\ dispatched

EndTurn == dispatch(endTurn) /\ dispatched

ResetGame == dispatch(resetGame) /\ dispatched

Next ==
    \/ SelectPiece
    \/ DeselectPiece
    \/ MovePiece
    \/ EndTurn
    \/ ResetGame

Spec == Init /\ [][Next]_vars

-----------------------------------------------------------------------------
(* Play of the two pawns that face each other on adjacent files, whose       *)
(* moves lead to captures in either direction; the states of this play are   *)
(* the ones written to text and laid out as objects.                         *)

SnapshotIds == {"w-pawn-5", "b-pawn-4"}

SnapshotSelect ==
    \E pieceId \in SnapshotIds \cup {UnknownId} :
        dispatch(selectPiece(pieceId)) /\ dispatched

SnapshotMove ==
    \E pieceId \in SnapshotIds, to \in OnBoard :
        dispatch(movePiece(pieceId, to)) /\ dispatched

SnapshotOther ==
    \E action \in {deselectPiece, endTurn, resetGame} :
        dispatch(action) /\ dispatched

SnapshotNext ==
    \/ SnapshotSelect
    \/ SnapshotMove
    \/ SnapshotOther

SnapshotSpec == Init /\ [][SnapshotNext]_vars

-----------------------------------------------------------------------------
(* Play of a knight against the pawn in front of the opposing king and the   *)
(* king itself: the king can step out and the knight can take it.            *)

KingIds == {"w-knight-1", "b-pawn-5", "b-king"}

\* The squares the three pieces are sent to: two for the knight on its way,
\* two for the pawn, and the square in front of the king, where the king
\* steps and the knight takes.
KingSquares ==
    {Position(2, 2), Position(0, 2), Position(3, 4),
     Position(4, 5), Position(4, 4), Position(4, 6)}

KingSelect ==
    \E pieceId \in KingIds : dispatch(selectPiece(pieceId)) /\ dispatched

KingMove ==
    \E pieceId \in KingIds, to \in KingSquares :
        dispatch(movePiece(pieceId, to)) /\ dispatched

KingOther ==
    \E action \in {deselectPiece, endTurn, resetGame} :
        dispatch(action) /\ dispatched

KingNext ==
    \/ KingSelect
    \/ KingMove
    \/ KingOther

KingSpec == Init /\ [][KingNext]_vars

-----------------------------------------------------------------------------
(* The move rules on boards of few pieces: a session constructed on a given  *)
(* state, new Game(initialState), whose piece under test is selected and     *)
(* deselected.                                                               *)

TestId == "piece-under-test"

\* The squares of the piece under test: two corners, the middle and the home
\* rows of the pawns.
TestSquares ==
    {Position(0, 0), Position(7, 7), Position(3, 3), Position(4, 1), Position(4, 6)}

\* The other pieces a board may hold, in the order of the pieces array.
OtherPieces ==
    << Piece("o-1", 0, 3, 2, "pawn"),   Piece("o-2", 3, 0, 1, "rook"),
       Piece("o-3", 3, 5, 2, "knight"), Piece("o-4", 5, 5, 2, "queen"),
       Piece("o-5", 1, 1, 1, "king"),   Piece("o-6", 4, 2, 2, "pawn"),
       Piece("o-7", 4, 3, 1, "pawn"),   Piece("o-8", 5, 2, 2, "rook"),
       Piece("o-9", 3, 2, 1, "knight"), Piece("o-10", 4, 5, 1, "bishop") >>

\* The state of a board that holds the piece under test and the other pieces
\* whose index is in others, the owner of the piece under test being on turn.
boardState(piece, others) ==
    [createInitialState EXCEPT
        !.pieces = <<piece>> \o
            SelectSeq(OtherPieces,
                      LAMBDA o : /\ \E i \in others : OtherPieces[i] = o
                                 /\ o.position # piece.position),
        !.currentPlayer = piece.playerId]

RulesInit ==
    \E pos \in TestSquares, type \in PieceTypes, playerId \in {1, 2},
       hasMoved \in BOOLEAN, others \in SUBSET (DOMAIN OtherPieces) :
        /\ Cardinality(others) <= MaxOthers
        /\ hasMoved => type = "pawn"    \* only a pawn's moves read hasMoved
        /\ construct(boardState(
                [Piece(TestId, pos.x, pos.y, playerId, type) EXCEPT !.hasMoved = hasMoved],
                others))

RulesSelect == dispatch(selectPiece(TestId)) /\ dispatched

RulesDeselect == dispatch(deselectPiece) /\ dispatched

RulesNext ==
    \/ RulesSelect
    \/ RulesDeselect

RulesSpec == RulesInit /\ [][RulesNext]_vars

-----------------------------------------------------------------------------
(* The same boards with a piece under test whose type is none of the six:    *)
(* a state that new Game(initialState) or loadState accepts as it is.        *)

UnknownTypes == {"dragon", "PAWN"}

UnknownTypeInit ==
    \E pos \in TestSquares, type \in UnknownTypes, playerId \in {1, 2},
       others \in SUBSET (DOMAIN OtherPieces) :
        /\ Cardinality(others) <= MaxOthers
        /\ construct(boardState(Piece(TestId, pos.x, pos.y, playerId, type), others))

UnknownTypeMove ==
    \E to \in OnBoard : dispatch(movePiece(TestId, to)) /\ dispatched

UnknownTypeNext ==
    \/ RulesSelect
    \/ RulesDeselect
    \/ UnknownTypeMove

UnknownTypeSpec == UnknownTypeInit /\ [][UnknownTypeNext]_vars

-----------------------------------------------------------------------------
(* The session and its observers: intents are dispatched, observers          *)
(* subscribe and unsubscribe, states are loaded and the game is reset.       *)

\* The intents dispatched to the session: accepted and rejected ones.
SessionIntents ==
    {selectPiece("w-pawn-5"), selectPiece(UnknownId), deselectPiece,
     movePiece("w-pawn-5", Position(4, 3)), movePiece("w-pawn-5", Position(4, 5)),
     movePiece("b-pawn-4", Position(3, 4)), endTurn, resetGame}

\* The states handed to loadState: a position of two kings in which player 2
\* is on turn, and a state no play leads to (two pieces on one square, no
\* such player, a selection that names no piece, a move off the board).
LoadableStates ==
    {[createInitialState EXCEPT
        !.pieces = <<Piece("w-king", 4, 0, 1, "king"), Piece("b-king", 4, 7, 2, "king")>>,
        !.currentPlayer = 2,
        !.turnNumber = 2],
     [createInitialState EXCEPT
        !.pieces = <<Piece("w-pawn-5", 4, 4, 1, "pawn"), Piece("b-king", 4, 4, 2, "king")>>,
        !.currentPlayer = 3,
        !.selectedPieceId = UnknownId,
        !.validMoves = <<Position(-1, 8)>>]}

SessionDispatch ==
    \E action \in SessionIntents :
        dispatch(action) /\ last' = Operation("dispatch", action)

\* this.listeners.add(listener)
subscribed(ls, listener) == ls \cup {listener}

\* subscribe(listener): this.listeners.add(listener); listener(this.state);
\* return () => this.listeners.delete(listener)
subscribe(listener) ==
    /\ listeners' = subscribed(listeners, listener)
    /\ calls' = [noCalls EXCEPT ![listener] = <<state>>]
    /\ unsubscribers' = unsubscribers \cup {listener}
    /\ active' = active \cup {listener}
    /\ last' = Operation("subscribe", listener)
    /\ UNCHANGED <<state, lastMover>>

Subscribe == \E listener \in Observers : subscribe(listener)

\* Fault variant of deleted: the listener stays in the set.
deletedNone(ls, listener) == ls

\* this.listeners.delete(listener)
deleted(ls, listener) == ls \ {listener}

\* The function subscribe(listener) returned: () => this.listeners.delete(listener)
unsubscribe(listener) ==
    /\ listener \in unsubscribers
    /\ listeners' = deleted(listeners, listener)
    /\ calls' = noCalls
    /\ active' = active \ {listener}
    /\ last' = Operation("unsubscribe", listener)
    /\ UNCHANGED <<state, unsubscribers, lastMover>>

Unsubscribe == \E listener \in Observers : unsubscribe(listener)

\* Fault variant of loadStateCalls: as dispatch, no call when nothing changes.
loadStateCallsIfChanged(s) ==
    IF s = state THEN noCalls ELSE notifyListeners(s, listeners)

\* loadState(state): this.state = state; this.notifyListeners()
loadStateCalls(s) == notifyListeners(s, listeners)

loadState(s) ==
    /\ state' = s
    /\ calls' = loadStateCalls(s)
    /\ lastMover' = 0
    /\ last' = Operation("loadState", s)
    /\ UNCHANGED <<listeners, unsubscribers, active>>

\* A state of LoadableStates, or the state the session is in.
LoadState == \E s \in LoadableStates \cup {state} : loadState(s)

\* reset(): this.state = createInitialState(); this.notifyListeners()
Reset ==
    /\ state' = createInitialState
    /\ calls' = notifyListeners(createInitialState, listeners)
    /\ lastMover' = 0
    /\ last' = Operation("reset", NULL)
    /\ UNCHANGED <<listeners, unsubscribers, active>>

SessionNext ==
    \/ SessionDispatch
    \/ Subscribe
    \/ Unsubscribe
    \/ LoadState
    \/ Reset

SessionSpec == Init /\ [][SessionNext]_vars

-----------------------------------------------------------------------------
(* PieceView.ts: the meshes of the pieces, by piece id, each with the place  *)
(* it sits at (mesh.position.x, mesh.position.z). Renderer.render updates    *)
(* the piece view with every state the board view is updated with.           *)

\* new PieceView(group): no meshes, not initialized
PieceView == [initialized |-> FALSE, pieceMeshes |-> <<>>]

\* The last piece of pieces with the identifier id: the one whose turn in the
\* loop over the pieces comes last.
lastPiece(pieces, id) ==
    pieces[CHOOSE i \in DOMAIN pieces :
            /\ pieces[i].id = id
            /\ \A j \in DOMAIN pieces : pieces[j].id = id => j <= i]

\* mesh.position.x = piece.position.x; mesh.position.z = piece.position.y
meshPosition(piece) == [x |-> piece.position.x, z |-> piece.position.y]

\* initializePieces(state): a mesh for each piece, at the place of the piece
initializePieces(view, s) ==
    [initialized |-> TRUE,
     pieceMeshes |-> [id \in {s.pieces[i].id : i \in DOMAIN s.pieces} |->
                        meshPosition(lastPiece(s.pieces, id))]]

\* update(state): the first call builds the meshes and returns; a later call
\* deletes the meshes whose id is not among the pieces of the state and
\* moves the mesh of every piece that has one; no mesh is created.
updatePieces(view, s) ==
    IF ~view.initialized THEN initializePieces(view, s)
    ELSE LET currentPieceIds == {s.pieces[i].id : i \in DOMAIN s.pieces}
         IN  [view EXCEPT !.pieceMeshes =
                [id \in DOMAIN view.pieceMeshes \cap currentPieceIds |->
                    meshPosition(lastPiece(s.pieces, id))]]

-----------------------------------------------------------------------------
(* InputManager.ts and the buttons of main.ts. A click is what the two ray   *)
(* casts of onClick hit: the piece of the first piece mesh on the ray, if    *)
(* any, and the tile of the first tile mesh on the ray, if any, each as a    *)
(* sequence of at most one element. The piece meshes carry the pieces of the *)
(* state the session announced last (PieceView.update, line 243).            *)

\* What a handler that dispatches nothing leaves in the record of the caller.
noIntent == [type |-> "NONE"]

\* Fault variant of clickIntent: a click on a piece of the other player and
\* a tile moves the piece that was hit.
clickIntentMovesHit(s, pieceHit, tileHit) ==
    IF pieceHit # <<>> /\ pieceHit[1].playerId = s.currentPlayer
    THEN IF s.selectedPieceId = pieceHit[1].id
         THEN deselectPiece
         ELSE selectPiece(pieceHit[1].id)
    ELSE IF tileHit # <<>>
         THEN IF pieceHit # <<>>
              THEN movePiece(pieceHit[1].id, tileHit[1].position)
              ELSE IF s.selectedPieceId # NULL
                   THEN movePiece(s.selectedPieceId, tileHit[1].position)
                   ELSE noIntent
         ELSE IF pieceHit = <<>> THEN deselectPiece ELSE noIntent

\* onClick (lines 38-112): the intent it dispatches for the state s it reads
\* with getState(), noIntent when it dispatches none
clickIntent(s, pieceHit, tileHit) ==
    IF pieceHit # <<>> /\ pieceHit[1].playerId = s.currentPlayer
    THEN IF s.selectedPieceId = pieceHit[1].id
         THEN deselectPiece
         ELSE selectPiece(pieceHit[1].id)
    ELSE IF tileHit # <<>>
         THEN IF s.selectedPieceId # NULL
              THEN movePiece(s.selectedPieceId, tileHit[1].position)
              ELSE noIntent
         ELSE IF pieceHit = <<>> THEN deselectPiece ELSE noIntent

\* onKeyDown (lines 114-118)
keyIntent(key) == IF key = "Escape" THEN deselectPiece ELSE noIntent

\* A handler of the input layer that ran: it dispatched action, or nothing.
handled(handler, action) ==
    /\ IF action = noIntent
       THEN /\ calls' = noCalls
            /\ UNCHANGED <<state, listeners, unsubscribers, lastMover, active>>
       ELSE dispatch(action)
    /\ last' = Operation(handler, action)

\* The pieces whose meshes are clicked and the tiles that are clicked.
ClickIds == {"w-pawn-5", "b-pawn-4"}

ClickTiles ==
    {Position(4, 2), Position(4, 3), Position(3, 4), Position(3, 5), Position(4, 4)}

PieceHits(s) ==
    {<<>>} \cup {<<s.pieces[i]>> : i \in {j \in DOMAIN s.pieces : s.pieces[j].id \in ClickIds}}

TileHits(s) ==
    {<<>>} \cup {<<s.board.tiles[i]>> :
                    i \in {j \in DOMAIN s.board.tiles : s.board.tiles[j].position \in ClickTiles}}

onClick ==
    \E pieceHit \in PieceHits(state), tileHit \in TileHits(state) :
        handled("onClick", clickIntent(state, pieceHit, tileHit))

onKeyDown ==
    \E key \in {"Escape", "Enter"} : handled("onKeyDown", keyIntent(key))

\* endTurnBtn and resetBtn of main.ts: game.dispatch(Actions.endTurn()),
\* game.dispatch(Actions.resetGame())
EndTurnButton == dispatch(endTurn) /\ last' = Operation("button", endTurn)

ResetButton == dispatch(resetGame) /\ last' = Operation("button", resetGame)

InputNext ==
    \/ onClick
    \/ onKeyDown
    \/ EndTurnButton
    \/ ResetButton

InputSpec == Init /\ [][InputNext]_vars

-----------------------------------------------------------------------------
(* Game.ts, call by call: dispatch and notifyListeners when a listener may   *)
(* call dispatch from inside its callback. A Set is iterated in the order of *)
(* insertion, so the listeners are a sequence here. The session keeps, next  *)
(* to its state, the states it accepted and the calls it made, in order.     *)

Running(s, accepted, log) == [state |-> s, accepted |-> accepted, log |-> log]

Call(listener, s) == [listener |-> listener, state |-> s]

\* What a listener that plays for Black does in its callback: when it is
\* handed a state with Black on turn it dispatches EndTurn; any other
\* listener dispatches nothing.
reaction(listener, reacting, s) ==
    IF listener = reacting /\ s.currentPlayer = 2 THEN <<endTurn>> ELSE <<>>

RECURSIVE notifyListenersFrom(_, _, _, _)
RECURSIVE dispatchInCallback(_, _, _, _)

\* for (const listener of this.listeners) { listener(this.state); } from the
\* i-th listener on: the argument is read when the listener is called, and
\* the body of the listener runs before the loop goes on.
notifyListenersFrom(session, order, reacting, i) ==
    IF i > Len(order) THEN session
    ELSE LET called == [session EXCEPT
                            !.log = Append(session.log, Call(order[i], session.state))]
             intents == reaction(order[i], reacting, session.state)
             returned == IF intents = <<>> THEN called
                         ELSE dispatchInCallback(called, order, reacting, intents[1])
         IN  notifyListenersFrom(returned, order, reacting, i + 1)

\* dispatch(action), lines 34-40
dispatchInCallback(session, order, reacting, action) ==
    IF returnsSameReference(session.state, action) THEN session
    ELSE LET newState == applyAction(session.state, action)
         IN  notifyListenersFrom(
                 [session EXCEPT !.state = newState,
                                 !.accepted = Append(session.accepted, newState)],
                 order, reacting, 1)


-----------------------------------------------------------------------------
(* The intents the claims quantify over: every one of them is applied, by    *)
(* applyAction, to every reachable state. They are a superset of the intents *)
(* dispatched.                                                               *)

InitialIds == {initialPieces[i].id : i \in DOMAIN initialPieces}

CheckedIds == InitialIds \cup {UnknownId}

CheckedDestinations == OnBoard \cup OffBoard

\* The active piece of s with identifier pieceId, <<>> when there is none.
activePiece(s, pieceId) ==
    LET hits == {i \in DOMAIN s.pieces : s.pieces[i].id = pieceId}
    IN  IF hits = {} THEN <<>> ELSE <<s.pieces[CHOOSE i \in hits : TRUE]>>

\* The set of positions of a sequence of positions.
positionSet(moves) == {moves[i] : i \in DOMAIN moves}

onBoard(pos) == pos.x \in 0..(BoardWidth - 1) /\ pos.y \in 0..(BoardHeight - 1)

occupiedBy(s, pos, playerId) ==
    \E i \in DOMAIN s.pieces : s.pieces[i].position = pos /\ s.pieces[i].playerId = playerId

\* The MOVE_PIECE intents of the legal moves of every piece of the player on
\* turn, whatever its type.
LegalMoveIntents(s) ==
    UNION {{movePiece(s.pieces[i].id, to) :
                to \in positionSet(getValidMoves(s.pieces[i], s))} :
           i \in {j \in DOMAIN s.pieces : s.pieces[j].playerId = s.currentPlayer}}

\* Those of them that applyAction accepts in s.
AcceptedMoves(s) == {a \in LegalMoveIntents(s) : ~returnsSameReference(s, a)}

\* The accepted MOVE_PIECE intents among those dispatched.
AcceptedInputMoves(s) == {a \in MoveIntents : ~returnsSameReference(s, a)}

otherPlayer(playerId) == IF playerId = 1 THEN 2 ELSE 1

-----------------------------------------------------------------------------
\* C1: applyAction rejects by identity. In every reachable state, SelectPiece
\* or MovePiece with an unknown piece id or with a piece not owned by
\* currentPlayer, and MovePiece to a destination that is not a legal move of
\* the piece (off the board, occupied by a piece of the same player, or not
\* among its legal moves), returns the state it was given, unchanged in every
\* field, as the same object, and its evaluation raises no error.
C1_RejectsByIdentity ==
    /\ \A pieceId \in CheckedIds :
        LET found == activePiece(state, pieceId)
        IN  (found = <<>> \/ found[1].playerId # state.currentPlayer) =>
                /\ returnsSameReference(state, selectPiece(pieceId))
                /\ applyAction(state, selectPiece(pieceId)) = state
    /\ \A pieceId \in CheckedIds :
        \A to \in IF pieceId \in PieceIds \cup {UnknownId}
                  THEN CheckedDestinations ELSE OffBoard :
            LET found == activePiece(state, pieceId)
            IN  (\/ found = <<>>
                 \/ found[1].playerId # state.currentPlayer
                 \/ ~onBoard(to)
                 \/ occupiedBy(state, to, state.currentPlayer)
                 \/ to \notin positionSet(getValidMoves(found[1], state))) =>
                    /\ returnsSameReference(state, movePiece(pieceId, to))
                    /\ applyAction(state, movePiece(pieceId, to)) = state

\* A reachable state, after a capture, in which intents of each rejected kind
\* exist: an unknown id, a piece of the player not on turn, and for a piece of
\* the player on turn a destination off the board, one occupied by the same
\* player and one on an empty square that is no legal move.
C1_Witness ==
    /\ state.capturedPieces # <<>>
    /\ activePiece(state, UnknownId) = <<>>
    /\ \E i, j \in DOMAIN state.pieces :
        /\ state.pieces[i].playerId # state.currentPlayer
        /\ state.pieces[j].playerId = state.currentPlayer
        /\ getValidMoves(state.pieces[j], state) # <<>>
        /\ \E off \in OffBoard, own, free \in OnBoard :
            /\ occupiedBy(state, own, state.currentPlayer)
            /\ getPieceAt(free, state) = <<>>
            /\ free \notin positionSet(getValidMoves(state.pieces[j], state))
            /\ applyAction(state, movePiece(state.pieces[j].id, off)) = state
            /\ applyAction(state, movePiece(state.pieces[j].id, own)) = state
            /\ applyAction(state, movePiece(state.pieces[j].id, free)) = state
            /\ applyAction(state, movePiece(state.pieces[i].id, free)) = state

-----------------------------------------------------------------------------
\* C2: MovePiece(id, to) is accepted (changes the state) exactly when a piece
\* with that id is active, belongs to currentPlayer and `to` is in the legal
\* moves computed for it on the current board. Acceptance is the same with
\* nothing selected and with any selection.
C2_MoveAcceptedIff ==
    \A pieceId \in CheckedIds :
        LET found == activePiece(state, pieceId)
            legal == IF found = <<>> THEN {}
                     ELSE positionSet(getValidMoves(found[1], state))
            unselected == [state EXCEPT !.selectedPieceId = NULL, !.validMoves = <<>>]
        IN  \A to \in IF pieceId \in PieceIds \cup {UnknownId}
                      THEN CheckedDestinations ELSE legal \cup OffBoard :
                LET action == movePiece(pieceId, to)
                    precondition ==
                        /\ found # <<>>
                        /\ found[1].playerId = state.currentPlayer
                        /\ to \in legal
                IN  /\ (applyAction(state, action) # state) <=> precondition
                    /\ returnsSameReference(state, action) <=> ~precondition
                    /\ returnsSameReference(unselected, action) <=> ~precondition

\* A piece can be moved while another piece is selected, and while none is.
C2_Witness ==
    /\ state.selectedPieceId # NULL
    /\ state.capturedPieces # <<>>
    /\ \E a \in AcceptedInputMoves(state) :
        /\ a.pieceId # state.selectedPieceId
        /\ applyAction(state, a) # state
        /\ applyAction(applyAction(state, deselectPiece), a) # state

\* C3: after every accepted MovePiece(id, to) the piece with identifier id is
\* still active, once, with the same id, player and type, at position `to`
\* with hasMoved true; selectedPieceId is null, validMoves is empty and every
\* tile is tagged normal.
C3_MoveEffect ==
    \A action \in AcceptedMoves(state) \cup AcceptedInputMoves(state) :
        LET after == applyAction(state, action)
            old == activePiece(state, action.pieceId)
            new == {i \in DOMAIN after.pieces : after.pieces[i].id = action.pieceId}
        IN  /\ old # <<>>
            /\ Cardinality(new) = 1
            /\ \A i \in new :
                /\ after.pieces[i].playerId = old[1].playerId
                /\ after.pieces[i].type = old[1].type
                /\ after.pieces[i].position = action.to
                /\ after.pieces[i].hasMoved = TRUE
            /\ after.selectedPieceId = NULL
            /\ after.validMoves = <<>>
            /\ \A k \in DOMAIN after.board.tiles : after.board.tiles[k].type = "normal"

\* The state right after an accepted move of a piece that had been selected:
\* a piece of the player who moved last has hasMoved, nothing is selected.
C3_Witness ==
    /\ lastMover # 0
    /\ state.currentPlayer # lastMover
    /\ state.selectedPieceId = NULL
    /\ \E i \in DOMAIN state.pieces :
        /\ state.pieces[i].playerId = lastMover
        /\ state.pieces[i].hasMoved
        /\ state.pieces[i] \notin {initialPieces[k] : k \in DOMAIN initialPieces}

\* The pieces of s standing on pos.
piecesAt(s, pos) == {i \in DOMAIN s.pieces : s.pieces[i].position = pos}

\* C4: an accepted MovePiece whose destination holds an enemy piece appends
\* exactly that piece to the end of capturedPieces and removes it from pieces
\* (one active piece less, one captured piece more); an accepted MovePiece onto
\* an empty square leaves the number of active pieces and capturedPieces as
\* they were.
C4_CaptureBookkeeping ==
    \A action \in AcceptedMoves(state) \cup AcceptedInputMoves(state) :
        LET after == applyAction(state, action)
            target == piecesAt(state, action.to)
        IN  IF \E i \in target : state.pieces[i].playerId # state.currentPlayer
            THEN \E i \in target :
                    /\ target = {i}
                    /\ after.capturedPieces = Append(state.capturedPieces, state.pieces[i])
                    /\ \A k \in DOMAIN after.pieces : after.pieces[k].id # state.pieces[i].id
                    /\ Len(after.pieces) = Len(state.pieces) - 1
            ELSE /\ target = {}
                 /\ after.capturedPieces = state.capturedPieces
                 /\ Len(after.pieces) = Len(state.pieces)

\* The state right after a capture: one piece is captured, 31 are active, and
\* a piece of the player who moved last stands on the captured piece's square.
C4_Witness ==
    /\ Len(state.capturedPieces) = 1
    /\ Len(state.pieces) = Len(initialPieces) - 1
    /\ lastMover # 0
    /\ state.capturedPieces[1].playerId = otherPlayer(lastMover)
    /\ \E i \in piecesAt(state, state.capturedPieces[1].position) :
        /\ state.pieces[i].playerId = lastMover
        /\ state.pieces[i].hasMoved

\* C5: turns alternate after each move. Every accepted MovePiece moves a piece
\* of the player on turn and hands the turn to the other player; the player
\* who made the last accepted move is not on turn, and none of that player's
\* pieces can be moved, until an EndTurn or ResetGame is accepted.
C5_TurnsAlternate ==
    /\ \A action \in AcceptedMoves(state) \cup AcceptedInputMoves(state) :
        LET mover == activePiece(state, action.pieceId)
            after == applyAction(state, action)
        IN  /\ mover # <<>>
            /\ mover[1].playerId = state.currentPlayer
            /\ after.currentPlayer = otherPlayer(state.currentPlayer)
            /\ after.currentPlayer \in {1, 2}
    /\ lastMover # 0 =>
        /\ state.currentPlayer = otherPlayer(lastMover)
        /\ \A action \in MoveIntents :
            LET mover == activePiece(state, action.pieceId)
            IN  (mover # <<>> /\ mover[1].playerId = lastMover) =>
                    returnsSameReference(state, action)

\* Black has moved, white is on turn and has selected a piece since.
C5_Witness ==
    /\ lastMover = 2
    /\ state.currentPlayer = 1
    /\ state.selectedPieceId # NULL
    /\ state.capturedPieces # <<>>

\* C6: turnNumber increases by exactly 1 on an accepted MovePiece and on an
\* EndTurn applied while currentPlayer is 2, is unchanged by them while
\* currentPlayer is 1 and by SelectPiece and DeselectPiece; two successive
\* accepted MovePiece / EndTurn intents increase it by exactly 1.
C6_TurnNumber ==
    LET halfMoves(s) == AcceptedInputMoves(s) \cup {endTurn}
        step(s) == IF s.currentPlayer = 2 THEN 1 ELSE 0
    IN  /\ \A action \in AcceptedMoves(state) \cup halfMoves(state) :
            applyAction(state, action).turnNumber = state.turnNumber + step(state)
        /\ \A pieceId \in CheckedIds :
            applyAction(state, selectPiece(pieceId)).turnNumber = state.turnNumber
        /\ applyAction(state, deselectPiece).turnNumber = state.turnNumber
        /\ \A first \in halfMoves(state) :
            LET middle == applyAction(state, first)
            IN  \A second \in halfMoves(middle) :
                    applyAction(middle, second).turnNumber = state.turnNumber + 1

\* The second round has begun after a move of each player.
C6_Witness ==
    /\ state.turnNumber = 2
    /\ lastMover = 2
    /\ \E i, j \in DOMAIN state.pieces :
        /\ state.pieces[i].playerId = 1 /\ state.pieces[i].hasMoved
        /\ state.pieces[j].playerId = 2 /\ state.pieces[j].hasMoved

-----------------------------------------------------------------------------
\* No two pieces of s stand on the same square.
distinctPositions(s) ==
    \A i, j \in DOMAIN s.pieces : i # j => s.pieces[i].position # s.pieces[j].position

\* C7: in every state reachable from the initial state by any sequence of
\* intents no two active pieces have the same position; and no accepted move
\* of any piece from such a state puts two pieces on one square.
C7_OnePiecePerSquare ==
    /\ distinctPositions(state)
    /\ \A action \in AcceptedMoves(state) : distinctPositions(applyAction(state, action))

\* After a capture the capturing piece stands alone on the square it took.
C7_Witness ==
    /\ state.capturedPieces # <<>>
    /\ lastMover # 0
    /\ \E k \in DOMAIN state.capturedPieces :
        Cardinality(piecesAt(state, state.capturedPieces[k].position)) = 1

\* C8: in every state reachable from the initial state by any sequence of
\* intents selectedPieceId is null or the id of an active piece (not of a
\* captured or missing one) that belongs to currentPlayer.
C8_SelectionOwnedByCurrentPlayer ==
    state.selectedPieceId # NULL =>
        /\ \E i \in DOMAIN state.pieces :
            /\ state.pieces[i].id = state.selectedPieceId
            /\ state.pieces[i].playerId = state.currentPlayer
        /\ \A k \in DOMAIN state.capturedPieces :
            state.capturedPieces[k].id # state.selectedPieceId

\* Black has a piece selected after a capture and after turns have passed.
C8_Witness ==
    /\ state.selectedPieceId # NULL
    /\ state.currentPlayer = 2
    /\ state.turnNumber > 1
    /\ state.capturedPieces # <<>>

\* C9: in every state reachable from the initial state by any sequence of
\* intents validMoves is empty when selectedPieceId is null, and otherwise is,
\* as a set, the legal moves of the selected piece on the current pieces.
C9_ValidMovesCurrent ==
    IF state.selectedPieceId = NULL
    THEN state.validMoves = <<>>
    ELSE LET selected == activePiece(state, state.selectedPieceId)
         IN  /\ selected # <<>>
             /\ positionSet(state.validMoves)
                    = positionSet(getValidMoves(selected[1], state))

\* A piece that has non-empty legal moves is selected after the board has
\* changed by a capture.
C9_Witness ==
    /\ state.selectedPieceId # NULL
    /\ state.validMoves # <<>>
    /\ state.capturedPieces # <<>>
    /\ \E i \in DOMAIN state.pieces :
        state.pieces[i].id = state.selectedPieceId /\ state.pieces[i].hasMoved

\* C10: for every piece p of any type, every position returned by
\* getValidMoves(p, s) lies on the board (0 <= x < width, 0 <= y < height) and
\* is not occupied by a piece owned by p's player. Checked in every reachable
\* state for every active piece, as it is and as a piece of each other type
\* and hasMoved flag standing on the same square for the same player.
C10_MovesOnBoardNotOwn ==
    \A i \in DOMAIN state.pieces, type \in PieceTypes, hasMoved \in BOOLEAN :
        LET p == [state.pieces[i] EXCEPT !.type = type, !.hasMoved = hasMoved]
            moves == getValidMoves(p, state)
        IN  \A k \in DOMAIN moves :
                /\ 0 <= moves[k].x /\ moves[k].x < state.board.width
                /\ 0 <= moves[k].y /\ moves[k].y < state.board.height
                /\ ~occupiedBy(state, moves[k], p.playerId)

\* A position in which pieces of all six types stand on the board, a slider
\* has a move that ends at the edge of the board, a piece has a capture among
\* its moves and a piece next to its own pieces has no move at all.
C10_Witness ==
    /\ {state.pieces[i].type : i \in DOMAIN state.pieces} = PieceTypes
    /\ \E i \in DOMAIN state.pieces :
        /\ state.pieces[i].type \in {"bishop", "queen", "rook"}
        /\ \E m \in positionSet(getValidMoves(state.pieces[i], state)) :
            m.x \in {0, BoardWidth - 1}
    /\ \E i \in DOMAIN state.pieces :
        \E m \in positionSet(getValidMoves(state.pieces[i], state)) :
            occupiedBy(state, m, otherPlayer(state.pieces[i].playerId))
    /\ \E i \in DOMAIN state.pieces :
        /\ state.pieces[i].type = "king"
        /\ getValidMoves(state.pieces[i], state) = <<>>

-----------------------------------------------------------------------------
\* The pieces of s taken as pieces of the given types: every piece of s, as
\* it is if its type is among them, and as a piece of each of these types on
\* the same square for the same player.
piecesAs(s, types) ==
    {[s.pieces[i] EXCEPT !.type = type] : i \in DOMAIN s.pieces, type \in types}

emptySquare(s, pos) == \A i \in DOMAIN s.pieces : s.pieces[i].position # pos

Orthogonal == {d \in [dx : -1..1, dy : -1..1] : (d.dx = 0) # (d.dy = 0)}

Diagonal == {d \in [dx : -1..1, dy : -1..1] : d.dx # 0 /\ d.dy # 0}

slidingDirections(type) ==
    CASE type = "rook"   -> Orthogonal
      [] type = "bishop" -> Diagonal
      [] type = "queen"  -> Orthogonal \cup Diagonal

\* The square k steps from pos in direction d.
stepsFrom(pos, d, k) == Position(pos.x + k * d.dx, pos.y + k * d.dy)

\* The squares a sliding piece p may go to in s: those on the board that are
\* reached in one of its directions over empty squares only, and that are
\* empty or hold an enemy piece.
slidingSquares(s, p) ==
    LET reached ==
            {r \in slidingDirections(p.type) \X (1..(BoardWidth + BoardHeight)) :
                /\ onBoard(stepsFrom(p.position, r[1], r[2]))
                /\ \A j \in 1..(r[2] - 1) :
                        emptySquare(s, stepsFrom(p.position, r[1], j))
                /\ ~occupiedBy(s, stepsFrom(p.position, r[1], r[2]), p.playerId)}
    IN  {stepsFrom(p.position, r[1], r[2]) : r \in reached}

\* C11: for a rook (4 orthogonal directions), a bishop (4 diagonal
\* directions) and a queen (all 8), the legal moves in each direction are
\* exactly the consecutive empty squares from the piece up to the board edge
\* or the first occupied square, plus that square when and only when it holds
\* an enemy piece; no square beyond the first occupied square is returned.
\* Checked for every piece of every board, taken as each sliding type.
C11_SlidingMoves ==
    \A p \in piecesAs(state, {"rook", "bishop", "queen"}) :
        LET moves == getValidMoves(p, state)
        IN  /\ positionSet(moves) = slidingSquares(state, p)
            /\ Cardinality(positionSet(moves)) = Len(moves)

\* The scenario of the rook in the corner: a white rook at (0,0) whose file
\* holds an enemy piece at (0,3) has (0,1), (0,2), (0,3) among its moves and
\* not (0,4); and a board on which a slider is stopped by a piece of its own.
C11_Witness ==
    /\ \E i \in DOMAIN state.pieces :
        LET p == state.pieces[i]
            moves == positionSet(getValidMoves(p, state))
        IN  /\ p.type = "rook" /\ p.playerId = 1 /\ p.position = Position(0, 0)
            /\ occupiedBy(state, Position(0, 3), 2)
            /\ {Position(0, 1), Position(0, 2), Position(0, 3)} \subseteq moves
            /\ Position(0, 4) \notin moves
            /\ state.selectedPieceId = p.id
            /\ state.validMoves = getValidMoves(p, state)
    /\ occupiedBy(state, Position(3, 0), 1)

-----------------------------------------------------------------------------
\* The pieces of s taken as pawns, moved and unmoved.
pawnsOf(s) ==
    {[p EXCEPT !.hasMoved = hasMoved] : p \in piecesAs(s, {"pawn"}), hasMoved \in BOOLEAN}

\* y + 1 for player 1, y - 1 for player 2.
forwardOf(p, steps) ==
    Position(p.position.x,
             IF p.playerId = 1 THEN p.position.y + steps ELSE p.position.y - steps)

freeSquare(s, pos) == onBoard(pos) /\ emptySquare(s, pos)

\* The squares a pawn p may go to in s.
pawnSquares(s, p) ==
    {q \in {forwardOf(p, 1)} : freeSquare(s, q)}
    \cup {q \in {forwardOf(p, 2)} :
            ~p.hasMoved /\ freeSquare(s, forwardOf(p, 1)) /\ freeSquare(s, q)}
    \cup {q \in {Position(forwardOf(p, 1).x - 1, forwardOf(p, 1).y),
                  Position(forwardOf(p, 1).x + 1, forwardOf(p, 1).y)} :
            onBoard(q) /\ occupiedBy(s, q, otherPlayer(p.playerId))}

\* The moves of a sequence that stay on the file of p.
forwardMoves(p, moves) == {i \in DOMAIN moves : moves[i].x = p.position.x}

\* C12: a pawn's legal moves are exactly the square one step forward if
\* on-board and empty, the square two steps forward if hasMoved is false and
\* both the intermediate and the destination squares are on-board and empty,
\* and each forward-diagonal square if on-board and occupied by an enemy
\* piece. A pawn never captures straight ahead, has exactly 2 forward moves
\* when unmoved with both forward squares empty, and at most 1 forward move
\* once hasMoved is true. Checked for every piece of every board taken as a
\* pawn, moved and unmoved.
C12_PawnMoves ==
    \A p \in pawnsOf(state) :
        LET moves == getValidMoves(p, state)
        IN  /\ positionSet(moves) = pawnSquares(state, p)
            /\ Cardinality(positionSet(moves)) = Len(moves)
            /\ \A i \in forwardMoves(p, moves) : emptySquare(state, moves[i])
            /\ (~p.hasMoved /\ freeSquare(state, forwardOf(p, 1))
                    /\ freeSquare(state, forwardOf(p, 2)))
                    => Cardinality(forwardMoves(p, moves)) = 2
            /\ p.hasMoved => Cardinality(forwardMoves(p, moves)) <= 1

\* An unmoved pawn on its home row is selected: the square two steps ahead is
\* empty but the square in front of it holds an enemy piece, so it has no
\* forward move, and it has a capture on a forward diagonal.
C12_Witness ==
    /\ state.selectedPieceId = TestId
    /\ LET p == state.pieces[1]
       IN  /\ p.type = "pawn" /\ ~p.hasMoved /\ p.playerId = 1
           /\ p.position = Position(4, 1)
           /\ occupiedBy(state, forwardOf(p, 1), 2)
           /\ freeSquare(state, forwardOf(p, 2))
           /\ state.validMoves = <<Position(5, 2)>>

-----------------------------------------------------------------------------
abs(n) == IF n < 0 THEN -n ELSE n

\* The 8 L-shaped offsets and the 8 single-square offsets.
LShaped == {d \in [dx : -2..2, dy : -2..2] : {abs(d.dx), abs(d.dy)} = {1, 2}}

SingleSquare == {d \in [dx : -1..1, dy : -1..1] : d.dx # 0 \/ d.dy # 0}

\* The squares a knight or a king p may go to in s.
steppingSquares(s, p) ==
    LET offsets == IF p.type = "knight" THEN LShaped ELSE SingleSquare
    IN  {q \in {stepsFrom(p.position, d, 1) : d \in offsets} :
            onBoard(q) /\ ~occupiedBy(s, q, p.playerId)}

\* The squares of s an enemy of player playerId may move to.
attackedSquares(s, playerId) ==
    UNION {positionSet(getValidMoves(s.pieces[i], s)) :
           i \in {j \in DOMAIN s.pieces : s.pieces[j].playerId # playerId}}

\* C13: a knight's legal moves are exactly those of the 8 L-shaped offsets,
\* and a king's exactly those of the 8 single-square offsets, whose target
\* square is on-board and is empty or enemy-occupied; no check-safety
\* filtering is applied, so a king's square attacked by an enemy piece is
\* still returned. Checked for every piece of every board taken as a knight
\* and as a king.
C13_KnightKingMoves ==
    /\ Cardinality(LShaped) = 8 /\ Cardinality(SingleSquare) = 8
    /\ \A p \in piecesAs(state, {"knight", "king"}) :
        LET moves == getValidMoves(p, state)
        IN  /\ positionSet(moves) = steppingSquares(state, p)
            /\ Cardinality(positionSet(moves)) = Len(moves)
            /\ p.type = "king" =>
                    (steppingSquares(state, p) \cap attackedSquares(state, p.playerId))
                        \subseteq positionSet(moves)

\* A king in the middle of the board is selected while an enemy rook bears on
\* squares next to it: these squares are among its valid moves.
C13_Witness ==
    /\ state.selectedPieceId = TestId
    /\ LET p == state.pieces[1]
       IN  /\ p.type = "king" /\ p.position = Position(3, 3)
           /\ \E i \in DOMAIN state.pieces :
                /\ state.pieces[i].type = "rook"
                /\ state.pieces[i].playerId # p.playerId
                /\ Position(4, 2) \in positionSet(getValidMoves(state.pieces[i], state))
           /\ Position(4, 2) \in positionSet(state.validMoves)
           /\ Len(state.validMoves) = 8

-----------------------------------------------------------------------------
\* The fields of a state that hold the position and the turn.
positionAndTurn(s) ==
    <<s.pieces, s.capturedPieces, s.currentPlayer, s.turnNumber>>

\* The tiles of a board but for their tags.
untagged(board) ==
    [board EXCEPT !.tiles = [i \in DOMAIN board.tiles |-> [board.tiles[i] EXCEPT !.type = "-"]]]

allTilesNormal(s) == \A k \in DOMAIN s.board.tiles : s.board.tiles[k].type = "normal"

\* The SELECT_PIECE intents applyAction accepts in s.
AcceptedSelects(s) ==
    {a \in {selectPiece(id) : id \in CheckedIds} : ~returnsSameReference(s, a)}

\* C14: an accepted SelectPiece(id) sets selectedPieceId to id, sets
\* validMoves to the legal moves of that piece on the current board, tags
\* exactly the tiles whose position is in validMoves as valid-move and all
\* other tiles as normal, and leaves pieces, capturedPieces, currentPlayer and
\* turnNumber unchanged, also when another piece was selected before.
C14_SelectEffect ==
    \A action \in AcceptedSelects(state) :
        LET after == applyAction(state, action)
            piece == activePiece(state, action.pieceId)
        IN  /\ piece # <<>>
            /\ after.selectedPieceId = action.pieceId
            /\ after.validMoves = getValidMoves(piece[1], state)
            /\ \A k \in DOMAIN after.board.tiles :
                    after.board.tiles[k].type =
                        IF after.board.tiles[k].position \in positionSet(after.validMoves)
                        THEN "valid-move" ELSE "normal"
            /\ untagged(after.board) = untagged(state.board)
            /\ positionAndTurn(after) = positionAndTurn(state)

\* A piece with moves is selected and its moves are highlighted, and a piece
\* with other moves can be selected in its place.
C14_Witness ==
    /\ state.selectedPieceId # NULL
    /\ state.validMoves # <<>>
    /\ \E k \in DOMAIN state.board.tiles : state.board.tiles[k].type = "valid-move"
    /\ \E action \in AcceptedSelects(state) :
        /\ action.pieceId # state.selectedPieceId
        /\ applyAction(state, action).validMoves # <<>>
        /\ positionSet(applyAction(state, action).validMoves)
                \cap positionSet(state.validMoves) = {}

-----------------------------------------------------------------------------
\* C15: DeselectPiece is accepted in every state: the result has
\* selectedPieceId null, validMoves empty and all tiles normal, and pieces,
\* capturedPieces, currentPlayer and turnNumber are unchanged.
C15_DeselectEffect ==
    LET after == applyAction(state, deselectPiece)
    IN  /\ ~returnsSameReference(state, deselectPiece)
        /\ after.selectedPieceId = NULL
        /\ after.validMoves = <<>>
        /\ allTilesNormal(after)
        /\ untagged(after.board) = untagged(state.board)
        /\ positionAndTurn(after) = positionAndTurn(state)

\* A state after a capture, in the second turn, in which a piece is selected
\* and tiles are highlighted: DeselectPiece has something to clear.
C15_Witness ==
    /\ state.selectedPieceId # NULL
    /\ \E k \in DOMAIN state.board.tiles : state.board.tiles[k].type = "valid-move"
    /\ state.capturedPieces # <<>>
    /\ state.turnNumber > 1
    /\ applyAction(state, deselectPiece) # state

\* C16: EndTurn is accepted in every state: it switches currentPlayer to the
\* other player, clears selectedPieceId and validMoves, resets all tiles to
\* normal, and leaves pieces (positions and hasMoved) and capturedPieces
\* unchanged.
C16_EndTurnEffect ==
    LET after == applyAction(state, endTurn)
    IN  /\ ~returnsSameReference(state, endTurn)
        /\ state.currentPlayer \in {1, 2}
        /\ after.currentPlayer = otherPlayer(state.currentPlayer)
        /\ after.selectedPieceId = NULL
        /\ after.validMoves = <<>>
        /\ allTilesNormal(after)
        /\ untagged(after.board) = untagged(state.board)
        /\ after.pieces = state.pieces
        /\ after.capturedPieces = state.capturedPieces

\* Player 2 is on turn after a capture, with a piece selected and its moves
\* highlighted: EndTurn hands the turn to player 1 and clears the selection.
C16_Witness ==
    /\ state.currentPlayer = 2
    /\ state.selectedPieceId # NULL
    /\ state.validMoves # <<>>
    /\ state.capturedPieces # <<>>
    /\ \E i \in DOMAIN state.pieces : state.pieces[i].hasMoved
    /\ applyAction(state, endTurn).currentPlayer = 1

\* The pieces of the back row of a player, from x = 0 to x = 7.
BackRow == <<"rook", "knight", "bishop", "queen", "king", "bishop", "knight", "rook">>

\* s is the standard starting position.
standardStart(s) ==
    /\ Len(s.pieces) = 32
    /\ Cardinality({s.pieces[i].id : i \in DOMAIN s.pieces}) = 32
    /\ \A i \in DOMAIN s.pieces : ~s.pieces[i].hasMoved
    /\ \A x \in 0..7 :
        /\ \E i \in DOMAIN s.pieces :
            /\ s.pieces[i].position = Position(x, 0)
            /\ s.pieces[i].playerId = 1 /\ s.pieces[i].type = BackRow[x + 1]
        /\ \E i \in DOMAIN s.pieces :
            /\ s.pieces[i].position = Position(x, 1)
            /\ s.pieces[i].playerId = 1 /\ s.pieces[i].type = "pawn"
        /\ \E i \in DOMAIN s.pieces :
            /\ s.pieces[i].position = Position(x, 6)
            /\ s.pieces[i].playerId = 2 /\ s.pieces[i].type = "pawn"
        /\ \E i \in DOMAIN s.pieces :
            /\ s.pieces[i].position = Position(x, 7)
            /\ s.pieces[i].playerId = 2 /\ s.pieces[i].type = BackRow[x + 1]
    /\ s.turnNumber = 1
    /\ s.currentPlayer = 1
    /\ s.capturedPieces = <<>>
    /\ s.selectedPieceId = NULL
    /\ s.validMoves = <<>>
    /\ allTilesNormal(s)
    /\ s.board.width = 8 /\ s.board.height = 8
    /\ {s.board.tiles[k].position : k \in DOMAIN s.board.tiles} = OnBoard
    /\ Len(s.board.tiles) = 64

\* C17: ResetGame applied to any state reachable by arbitrary play yields
\* exactly the standard starting position: the 32 initial pieces at their
\* initial squares with hasMoved false, turnNumber 1, currentPlayer 1, empty
\* capturedPieces, no selection, empty validMoves and all tiles normal.
C17_ResetRestoresStart ==
    LET after == applyAction(state, resetGame)
    IN  /\ ~returnsSameReference(state, resetGame)
        /\ standardStart(after)
        /\ after = createInitialState

\* A state of play that differs from the start in all of this: a piece has
\* been captured, pieces have moved, it is the second turn or later, player 2
\* is on turn and a piece is selected with its moves highlighted.
C17_Witness ==
    /\ state.capturedPieces # <<>>
    /\ Len(state.pieces) < 32
    /\ state.turnNumber > 1
    /\ state.currentPlayer = 2
    /\ state.selectedPieceId # NULL
    /\ ~allTilesNormal(state)
    /\ standardStart(applyAction(state, resetGame))

-----------------------------------------------------------------------------
\* Each observer of ls was called once, with s, and no other observer.
calledOnce(ls, s) ==
    \A l \in Observers : calls'[l] = IF l \in ls THEN <<s>> ELSE <<>>

\* C18: Game.dispatch(intent) notifies observers only if the state returned
\* by the reducer differs from the prior state: on an accepted intent the
\* session state is replaced and each subscribed observer is called exactly
\* once with the new state; on a rejected intent the session state is
\* unchanged and no observer is called.
C18_DispatchNotifies ==
    [][last'.op = "dispatch" =>
        IF returnsSameReference(state, last'.arg)
        THEN state' = state /\ calledOnce({}, state)
        ELSE /\ state' = applyAction(state, last'.arg)
             /\ calledOnce(listeners, applyAction(state, last'.arg))
             /\ listeners' = listeners]_vars

\* Both observers are subscribed and have just been called with the state
\* an accepted move led to.
C18_Witness ==
    /\ last.op = "dispatch"
    /\ last.arg.type = "MOVE_PIECE"
    /\ lastMover = 1
    /\ listeners = Observers
    /\ \A l \in Observers : calls[l] = <<state>>
    /\ \E i \in DOMAIN state.pieces :
        state.pieces[i].id = last.arg.pieceId /\ state.pieces[i].position = last.arg.to

-----------------------------------------------------------------------------
\* The step changes the session state: an accepted intent, a loaded state or
\* a reset.
acceptedChange ==
    \/ last'.op = "dispatch" /\ ~returnsSameReference(state, last'.arg)
    \/ last'.op \in {"loadState", "reset"}

\* C19: subscribe(observer) calls the observer once, synchronously, with the
\* current state before returning; the observer is then called on every later
\* accepted change of the session state; and after the returned unsubscribe
\* function has been called the observer is never called again. An observer
\* is followed from a subscribe to the next call of an unsubscribe function
\* subscribe returned for it (active); one that subscribes again is called
\* again.
C19_SubscribeLifecycle ==
    [][/\ last'.op = "subscribe" =>
            /\ state' = state
            /\ calls'[last'.arg] = <<state>>
            /\ last'.arg \in active'
       /\ last'.op = "unsubscribe" => last'.arg \notin active'
       /\ acceptedChange => \A l \in active : l \in active' /\ calls'[l] = <<state'>>
       /\ \A l \in Observers \ active' : calls'[l] = <<>>]_vars

\* Observer 1 has subscribed and unsubscribed, observer 2 has subscribed: an
\* accepted move has just been announced to observer 2 alone.
C19_Witness ==
    /\ last.op = "dispatch"
    /\ last.arg.type = "MOVE_PIECE"
    /\ lastMover # 0
    /\ unsubscribers = {1, 2}
    /\ active = {2}
    /\ calls[1] = <<>>
    /\ calls[2] = <<state>>

\* C20: loadState(s) always replaces the session state with s (without
\* validation, whatever the current state) and notifies every observer with
\* s; reset() always replaces the session state with a fresh standard initial
\* state and notifies every observer.
C20_LoadStateAndReset ==
    [][/\ last'.op = "loadState" =>
            /\ state' = last'.arg
            /\ calledOnce(listeners, last'.arg)
       /\ last'.op = "reset" =>
            /\ standardStart(state')
            /\ calledOnce(listeners, state')]_vars

\* A state no play leads to has just been loaded and announced to both
\* observers.
C20_Witness ==
    /\ last.op = "loadState"
    /\ state = last.arg
    /\ state.currentPlayer \notin {1, 2}
    /\ ~distinctPositions(state)
    /\ listeners = Observers
    /\ \A l \in Observers : calls[l] = <<state>>

-----------------------------------------------------------------------------
\* C21: for every GameState s reachable from the initial state,
\* deserializeState(serializeState(s)) is deep-equal to s (all fields,
\* including null selectedPieceId, piece order, hasMoved flags, tile tags and
\* capturedPieces).
C21_RoundTrip ==
    LET decoded == deserializeState(serializeState(state))
    IN  /\ decoded.ok
        /\ decoded.value = state

\* A state of play with all that the claim lists: a captured piece, moved and
\* unmoved pieces, a selected piece and highlighted tiles; its text is decoded
\* to it.
C21_Witness ==
    /\ state.capturedPieces # <<>>
    /\ \E i, j \in DOMAIN state.pieces : state.pieces[i].hasMoved /\ ~state.pieces[j].hasMoved
    /\ state.selectedPieceId # NULL
    /\ ~allTilesNormal(state)
    /\ state.validMoves # <<>>
    /\ deserializeState(serializeState(state)) = Parsed(state)

\* Texts that are not well-formed JSON: the text of s without its last token,
\* the same with one token too many, the empty text, an object that ends
\* after a key, an array that ends with a comma.
MalformedTexts(s) ==
    { SubSeq(serializeState(s), 1, Len(serializeState(s)) - 1),
      serializeState(s) \o punctuation("}"),
      <<>>,
      punctuation("{") \o jsonString("board"),
      punctuation("[") \o jsonNumber(1) \o punctuation(",") \o punctuation("]") }

\* The text of s without its pieces property.
textWithoutPieces(s) ==
    jsonObject(<<
        jsonProperty("board", stringifyBoard(s.board)),
        jsonProperty("currentPlayer", jsonNumber(s.currentPlayer)),
        jsonProperty("selectedPieceId", jsonNull),
        jsonProperty("validMoves", jsonArray(<<>>)),
        jsonProperty("turnNumber", jsonNumber(s.turnNumber)),
        jsonProperty("capturedPieces", jsonArray(<<>>)) >>)

\* Well-formed JSON texts that do not have the shape of a GameState: no
\* pieces property, a number in place of the board, an empty object, a
\* number, null.
MisshapenTexts(s) ==
    { textWithoutPieces(s),
      jsonObject(<< jsonProperty("board", jsonNumber(5)),
                    jsonProperty("pieces", jsonArray(<<>>)) >>),
      jsonObject(<<>>),
      jsonNumber(42),
      jsonNull }

\* C22: deserializeState fails with a distinct error, rather than returning a
\* value, whenever its input is not well-formed JSON or is well-formed JSON
\* that does not have the shape of a GameState (for example a missing pieces
\* field or a number in place of the board).
C22_DecodeFailsOnBadInput ==
    \A text \in MalformedTexts(state) \cup MisshapenTexts(state) :
        ~deserializeState(text).ok

\* The intents tried on the objects of the state s: the accepted moves of the
\* pieces that are moved in play, a move of an unknown piece and a move off
\* the board, every selection of these pieces and of an unknown one, and the
\* three intents without arguments.
HeapIntents(s) ==
    AcceptedInputMoves(s)
    \cup {movePiece(UnknownId, Position(4, 3)), movePiece(InputIds[1], Position(4, 8))}
    \cup {selectPiece(pieceId) : pieceId \in PieceIds \cup {UnknownId}}
    \cup {deselectPiece, endTurn, resetGame}

\* The cells of before are in after what they were.
unmodified(before, after) ==
    /\ Len(after) >= Len(before)
    /\ \A ref \in DOMAIN before : after[ref] = before[ref]

\* C23: applyAction never modifies the state value it is given. For every
\* reachable state s and every intent a, after applyAction(s, a) every object
\* and array that existed before the call holds what it held before, so every
\* field of s (pieces, capturedPieces, tiles, selection, validMoves,
\* currentPlayer, turnNumber) has the value it had; the same holds for a
\* second transition from the resulting state, whose objects are shared with
\* s, so a snapshot kept by an observer stays unchanged across later
\* transitions.
C23_InputNotModified ==
    LET before == allocateState(<<>>, state)
    IN  \A a \in HeapIntents(state) :
            LET first == applyActionInHeap(before.heap, before.ref, a)
            IN  /\ unmodified(before.heap, first.heap)
                /\ valueAt(first.heap, before.ref) = state
                /\ \A b \in HeapIntents(applyAction(state, a)) :
                        LET second == applyActionInHeap(first.heap, first.ref, b)
                        IN  /\ unmodified(first.heap, second.heap)
                            /\ valueAt(second.heap, before.ref) = state

\* A state in which a capture is accepted: the reducer pushes to and splices
\* the arrays it copied, its result, read through the references, is the
\* state applyAction computes, and the given state reads as before.
C23_Witness ==
    LET before == allocateState(<<>>, state)
    IN  \E a \in AcceptedInputMoves(state) :
            LET after == applyActionInHeap(before.heap, before.ref, a)
            IN  /\ findIndexAt(state.pieces, a.to) # 0
                /\ after.ref # before.ref
                /\ valueAt(after.heap, after.ref) = applyAction(state, a)
                /\ valueAt(after.heap, after.ref) # state
                /\ valueAt(after.heap, before.ref) = state

\* The state s with the other player on turn, a later turn, another
\* selection, one more entry in validMoves and one more captured piece.
withOtherSession(s) ==
    [s EXCEPT !.currentPlayer = nextPlayer(s),
              !.turnNumber = s.turnNumber + 1,
              !.selectedPieceId = IF s.selectedPieceId = NULL THEN TestId ELSE NULL,
              !.validMoves = Append(s.validMoves, Position(0, 0)),
              !.capturedPieces = Append(s.capturedPieces, Piece("w-queen", 3, 0, 1, "queen"))]

\* The state s with the tag of every tile changed.
withOtherTags(s) ==
    [s EXCEPT !.board.tiles =
        [i \in DOMAIN s.board.tiles |->
            [s.board.tiles[i] EXCEPT !.type =
                IF s.board.tiles[i].type = "normal" THEN "valid-move" ELSE "normal"]]]

\* The state s with the identifier, type and hasMoved flag of every piece
\* but p changed; positions and owners stay.
withOtherPieces(s, p) ==
    [s EXCEPT !.pieces =
        [i \in DOMAIN s.pieces |->
            IF s.pieces[i] = p THEN p
            ELSE [s.pieces[i] EXCEPT
                    !.id = "other",
                    !.type = IF s.pieces[i].type = "queen" THEN "pawn" ELSE "queen",
                    !.hasMoved = ~s.pieces[i].hasMoved]]]

\* States that differ from s in nothing getValidMoves(p, -) may read.
Indistinguishable(s, p) ==
    {withOtherSession(s), withOtherTags(s), withOtherPieces(s, p),
     withOtherSession(withOtherTags(withOtherPieces(s, p)))}

\* C24: getValidMoves depends only on the piece's type, position, owner and
\* hasMoved flag, the board dimensions, and the positions and owners of the
\* pieces on the board. For every piece of every board, states that differ
\* only in currentPlayer, selectedPieceId, validMoves, tile tags, turnNumber
\* or capturedPieces, or in the identifiers, types and hasMoved flags of the
\* other pieces, give the same moves in the same order.
C24_MovesDependOnPosition ==
    \A i \in DOMAIN state.pieces :
        \A other \in Indistinguishable(state, state.pieces[i]) :
            getValidMoves(state.pieces[i], other) = getValidMoves(state.pieces[i], state)

\* A board on which the piece under test is selected, its tiles are tagged,
\* it can capture, and the state changed in every field the moves do not
\* depend on gives the moves of the selection.
C24_Witness ==
    LET p == state.pieces[1]
        other == withOtherSession(withOtherTags(withOtherPieces(state, p)))
    IN  /\ state.selectedPieceId = TestId
        /\ Len(state.pieces) > 1
        /\ \E k \in DOMAIN state.validMoves : isEnemyAt(state.validMoves[k], p.playerId, state)
        /\ other.currentPlayer # p.playerId
        /\ other.board.tiles # state.board.tiles
        /\ other.pieces # state.pieces
        /\ getValidMoves(p, other) = state.validMoves

\* The session state once SelectPiece("w-pawn-5") and then
\* MovePiece("w-pawn-5", (4, 3)) were applied to the state s.
afterOpening(s) ==
    applyAction(applyAction(s, selectPiece("w-pawn-5")),
                movePiece("w-pawn-5", Position(4, 3)))

\* C25: from the initial state, applying SelectPiece("w-pawn-5") yields a
\* state whose validMoves contains (4, 2) and (4, 3) and neither (3, 2) nor
\* (5, 2); then applying MovePiece("w-pawn-5", (4, 3)) yields a state with
\* currentPlayer = 2 and turnNumber = 1 in which that piece is at (4, 3) with
\* hasMoved true.
C25_OpeningScenario ==
    state = createInitialState =>
        LET selected == applyAction(state, selectPiece("w-pawn-5"))
            moved == afterOpening(state)
            pawn == activePiece(moved, "w-pawn-5")
        IN  /\ selected.selectedPieceId = "w-pawn-5"
            /\ {Position(4, 2), Position(4, 3)} \subseteq positionSet(selected.validMoves)
            /\ Position(3, 2) \notin positionSet(selected.validMoves)
            /\ Position(5, 2) \notin positionSet(selected.validMoves)
            /\ moved.currentPlayer = 2
            /\ moved.turnNumber = 1
            /\ pawn # <<>>
            /\ pawn[1].position = Position(4, 3)
            /\ pawn[1].hasMoved

\* The session is in the state the scenario ends in, White having moved.
C25_Witness ==
    /\ state = afterOpening(createInitialState)
    /\ state # createInitialState
    /\ lastMover = 1

displayed(s) == update(update(BoardView, createInitialState), s)

\* C27: while a piece is selected, the board view displays every tile that
\* is a valid move of the selected piece with the highlight material
\* (distinct from its normal light/dark material), and displays every other
\* tile with its normal material.
C27_ValidMovesHighlighted ==
    state.selectedPieceId # NULL =>
        \A i \in DOMAIN state.board.tiles :
            LET tile == state.board.tiles[i]
            IN  displayed(state).tileMeshes[tile.id] =
                    IF tile.position \in positionSet(state.validMoves)
                    THEN highlightedMaterial
                    ELSE squareMaterial(tile)

\* C28: in every state reachable from the initial state by any sequence of
\* intents, turnNumber >= 1 and currentPlayer is 1 or 2, and the initial
\* state has currentPlayer = 1 and turnNumber = 1.
C28_TurnAndPlayerRange ==
    /\ state.turnNumber >= 1
    /\ state.currentPlayer \in {1, 2}
    /\ last.op = "constructor" =>
            /\ state.currentPlayer = 1
            /\ state.turnNumber = 1

\* Both players have moved: Black is on turn again in a later turn than the
\* first.
C28_Witness ==
    /\ state.turnNumber > 1
    /\ state.currentPlayer = 2
    /\ lastMover = 1
    /\ last.op = "dispatch"

\* The intents tried on the state s apart from ResetGame: every legal move
\* of every piece of the player on turn, a move of an unknown piece and a
\* move off the board, the selections of the pieces moved in play and of an
\* unknown one, DeselectPiece and EndTurn.
TurnIntents(s) ==
    LegalMoveIntents(s)
    \cup {movePiece(UnknownId, Position(4, 3)), movePiece(InputIds[1], Position(4, 8))}
    \cup {selectPiece(pieceId) : pieceId \in PieceIds \cup {UnknownId}}
    \cup {deselectPiece, endTurn}

\* C29 as stated: turnNumber is monotonically increasing; no transition of
\* the reducer, for any intent, yields a state whose turnNumber is smaller
\* than that of the state it was applied to.
C29_TurnNumberNeverDecreases ==
    \A action \in TurnIntents(state) \cup {resetGame} :
        applyAction(state, action).turnNumber >= state.turnNumber

\* C29, amended: no transition of the reducer for an intent other than
\* ResetGame yields a state whose turnNumber is smaller than that of the
\* state it was applied to; ResetGame yields turnNumber 1.
C29_TurnNumberDecreasesOnlyOnReset ==
    /\ \A action \in TurnIntents(state) :
            applyAction(state, action).turnNumber >= state.turnNumber
    /\ applyAction(state, resetGame).turnNumber = 1

\* A state after the first turn, Black to move: a move of Black raises
\* turnNumber, ResetGame lowers it.
C29_Witness ==
    /\ state.turnNumber > 1
    /\ state.currentPlayer = 2
    /\ \E action \in AcceptedInputMoves(state) :
            applyAction(state, action).turnNumber > state.turnNumber
    /\ applyAction(state, resetGame).turnNumber < state.turnNumber

\* The identifiers of a sequence of pieces, in its order.
idsOf(pieces) == [i \in DOMAIN pieces |-> pieces[i].id]

\* C30: in every state reachable from the initial state by any sequence of
\* intents, the active pieces and the captured pieces together hold each of
\* the 32 initial identifiers exactly once: no identifier is duplicated in
\* either sequence, none is in both, none disappears, and active count +
\* captured count = 32.
C30_PiecesConserved ==
    LET ids == idsOf(state.pieces) \o idsOf(state.capturedPieces)
    IN  /\ Cardinality(InitialIds) = 32
        /\ Len(state.pieces) + Len(state.capturedPieces) = 32
        /\ {ids[i] : i \in DOMAIN ids} = InitialIds
        /\ \A i, j \in DOMAIN ids : ids[i] = ids[j] => i = j

\* A piece has been captured and play went on: the captured piece is no
\* longer active, and the captured and the active pieces are 32.
C30_Witness ==
    /\ Len(state.capturedPieces) = 1
    /\ \A i \in DOMAIN state.pieces : state.pieces[i].id # state.capturedPieces[1].id
    /\ Len(state.pieces) = 31
    /\ lastMover # state.capturedPieces[1].playerId
    /\ lastMover # 0
    /\ state.selectedPieceId # NULL

\* C31: getValidMoves on a piece whose type is none of pawn, rook, knight,
\* bishop, queen, king returns the empty move set without failing, so
\* SelectPiece of such a piece owned by currentPlayer is accepted with empty
\* validMoves and every MovePiece of it is rejected.
C31_UnknownTypeHasNoMoves ==
    \A i \in DOMAIN state.pieces :
        LET piece == state.pieces[i]
            selected == applyAction(state, selectPiece(piece.id))
        IN  piece.type \notin PieceTypes =>
                /\ getValidMoves(piece, state) = <<>>
                /\ piece.playerId = state.currentPlayer =>
                        /\ ~returnsSameReference(state, selectPiece(piece.id))
                        /\ selected.selectedPieceId = piece.id
                        /\ selected.validMoves = <<>>
                        /\ allTilesNormal(selected)
                /\ \A to \in CheckedDestinations :
                        /\ returnsSameReference(state, movePiece(piece.id, to))
                        /\ applyAction(state, movePiece(piece.id, to)) = state

\* A piece of an unknown type, owned by the player on turn and standing
\* among other pieces, has been selected: nothing is offered.
C31_Witness ==
    /\ state.pieces[1].type \notin PieceTypes
    /\ state.pieces[1].playerId = state.currentPlayer
    /\ state.selectedPieceId = state.pieces[1].id
    /\ state.validMoves = <<>>
    /\ Len(state.pieces) > 1

\* The pieces of s that do not stand on pos, in their order.
survivors(s, pos) == SelectSeq(s.pieces, LAMBDA piece : piece.position # pos)

\* The accepted moves of s that capture.
AcceptedCaptures(s) ==
    {action \in AcceptedMoves(s) \cup AcceptedInputMoves(s) :
        findIndexAt(s.pieces, action.to) # 0}

\* C32: after every accepted MovePiece, capturing or not and whatever the
\* positions of the mover and of the captured piece in the pieces sequence
\* (captured before or after the mover), the piece that is updated is the
\* mover, every other surviving piece is unchanged in id, position, player,
\* type and hasMoved, and the surviving pieces keep their relative order.
C32_OnlyMoverUpdated ==
    \A action \in AcceptedMoves(state) \cup AcceptedInputMoves(state) :
        LET after == applyAction(state, action)
            kept == survivors(state, action.to)
        IN  /\ Len(after.pieces) = Len(kept)
            /\ \A k \in DOMAIN kept :
                    after.pieces[k] =
                        IF kept[k].id = action.pieceId
                        THEN [kept[k] EXCEPT !.position = action.to, !.hasMoved = TRUE]
                        ELSE kept[k]

\* A state in which an accepted move captures a piece that precedes the mover
\* in the pieces sequence, reached after a capture of a piece that followed
\* its mover.
C32_Witness ==
    /\ state.capturedPieces # <<>>
    /\ \E action \in AcceptedCaptures(state) :
            findIndexAt(state.pieces, action.to) < findIndexById(state.pieces, action.pieceId)

\* The orders in which the listeners of the set ls can have subscribed.
Orders(ls) ==
    {order \in [1..Cardinality(ls) -> ls] :
        \A i, j \in DOMAIN order : order[i] = order[j] => i = j}

\* The states a listener was called with, in the order of the calls.
calledWith(log, listener) ==
    LET mine == SelectSeq(log, LAMBDA call : call.listener = listener)
    IN  [i \in DOMAIN mine |-> mine[i].state]

\* C33: intents are applied one at a time to completion. For any dispatch,
\* including a dispatch issued by an observer from inside its notification
\* callback, every subscribed observer is called exactly once for each
\* accepted state, with that state, in the order in which the states were
\* accepted.
C33_OneCallPerAcceptedState ==
    \A order \in Orders(listeners), reacting \in listeners, action \in SessionIntents :
        LET session == dispatchInCallback(Running(state, <<>>, <<>>), order, reacting, action)
        IN  \A listener \in listeners :
                calledWith(session.log, listener) = session.accepted

\* The positions of the tiles of s that carry the tag.
taggedPositions(s, tag) ==
    {s.board.tiles[i].position : i \in {j \in DOMAIN s.board.tiles : s.board.tiles[j].type = tag}}

\* C34: in every state reachable from the initial state by any sequence of
\* intents, the board has exactly one tile per coordinate (64 tiles with
\* unchanged ids and positions), the set of tiles tagged valid-move equals
\* the set of positions in validMoves, and no tile is tagged highlighted.
C34_TilesFollowSelection ==
    LET tiles == state.board.tiles
    IN  /\ Len(tiles) = 64
        /\ \A pos \in OnBoard :
                Cardinality({i \in DOMAIN tiles : tiles[i].position = pos}) = 1
        /\ \A i \in DOMAIN tiles :
                /\ tiles[i].id = initialTiles[i].id
                /\ tiles[i].position = initialTiles[i].position
                /\ tiles[i].type \in {"normal", "valid-move"}
        /\ taggedPositions(state, "valid-move") = positionSet(state.validMoves)
        /\ taggedPositions(state, "highlighted") = {}

\* After the first turn a piece with two or more moves is selected: exactly
\* the tiles of its moves are tagged.
C34_Witness ==
    /\ state.turnNumber > 1
    /\ state.selectedPieceId # NULL
    /\ Cardinality(positionSet(state.validMoves)) >= 2
    /\ Cardinality(taggedPositions(state, "valid-move")) = Len(state.validMoves)
    /\ Cardinality(taggedPositions(state, "normal")) = 64 - Len(state.validMoves)

\* The step was taken by a handler of the input layer.
byInputLayer == last'.op \in {"onClick", "onKeyDown"}

\* The step moved a piece: the pieces of the session changed, and not by a
\* reset.
pieceMoved ==
    /\ state'.pieces # state.pieces
    /\ last'.arg.type = "MOVE_PIECE"

\* C35: the input layer dispatches only SelectPiece, DeselectPiece and
\* MovePiece, and every MovePiece it dispatches names the piece that is
\* selected in the session state at the moment of the click; so through the
\* input layer a piece is moved only after an accepted SelectPiece of that
\* piece with no deselection, move or end of turn in between: a selection
\* comes from an accepted SelectPiece of that piece alone, and a
\* deselection, an accepted move, an end of turn and a reset clear it.
C35_InputMovesSelectedPiece ==
    [][/\ byInputLayer =>
            /\ last'.arg.type \in {"NONE", "SELECT_PIECE", "DESELECT_PIECE", "MOVE_PIECE"}
            /\ last'.arg.type = "MOVE_PIECE" =>
                    /\ state.selectedPieceId # NULL
                    /\ last'.arg.pieceId = state.selectedPieceId
            /\ pieceMoved =>
                    \E i \in DOMAIN state'.pieces :
                        /\ state'.pieces[i].id = state.selectedPieceId
                        /\ state'.pieces[i].position = last'.arg.to
       /\ (state'.selectedPieceId # NULL /\ state'.selectedPieceId # state.selectedPieceId) =>
            /\ byInputLayer
            /\ last'.arg = selectPiece(state'.selectedPieceId)
       /\ (\/ last'.arg.type \in {"DESELECT_PIECE", "END_TURN", "RESET_GAME"}
           \/ pieceMoved) =>
            state'.selectedPieceId = NULL]_vars

\* A click on a tile has just moved the selected piece onto a piece of the
\* other player.
C35_Witness ==
    /\ last.op = "onClick"
    /\ last.arg.type = "MOVE_PIECE"
    /\ lastMover # 0
    /\ state.capturedPieces # <<>>
    /\ state.selectedPieceId = NULL
    /\ \E i \in DOMAIN state.pieces :
            /\ state.pieces[i].id = last.arg.pieceId
            /\ state.pieces[i].position = last.arg.to

\* The piece view of a session in state s that has been reset or loaded at
\* most as its last change: built when the renderer subscribed to the new
\* session, updated with s when the session announced it. A view that has
\* seen more states holds no mesh that this one lacks.
displayedPieces(s) == updatePieces(updatePieces(PieceView, createInitialState), s)

\* C36: after the piece view has been updated with the session's current
\* state, the set of piece meshes it holds equals the set of active piece
\* ids of that state and each mesh sits at its piece's position, for every
\* sequence of state changes, including a ResetGame or loadState that
\* brings back pieces that had been captured earlier.
C36_MeshesAreActivePieces ==
    [][LET view == updatePieces(displayedPieces(state), state')
       IN  /\ DOMAIN view.pieceMeshes = {state'.pieces[i].id : i \in DOMAIN state'.pieces}
           /\ \A i \in DOMAIN state'.pieces :
                   view.pieceMeshes[state'.pieces[i].id] = meshPosition(state'.pieces[i])]_vars

\* The intent is a SelectPiece or MovePiece that the rules reject in s: the
\* piece is unknown or not of the player on turn, or the destination is none
\* of its moves.
rejectedIntent(s, action) ==
    /\ action.type \in {"SELECT_PIECE", "MOVE_PIECE"}
    /\ LET found == activePiece(s, action.pieceId)
       IN  \/ found = <<>>
           \/ found[1].playerId # s.currentPlayer
           \/ /\ action.type = "MOVE_PIECE"
              /\ action.to \notin positionSet(getValidMoves(found[1], s))

\* C37: DeselectPiece, EndTurn and ResetGame always produce a fresh state, so
\* dispatching DeselectPiece when nothing is selected, or ResetGame on an
\* untouched initial state, notifies every observer although the resulting
\* state is equal in value to the prior one; only rejected SelectPiece and
\* MovePiece intents produce no notification.
C37_FreshStateNotifies ==
    [][last'.op = "dispatch" =>
        /\ last'.arg.type \in {"DESELECT_PIECE", "END_TURN", "RESET_GAME"} =>
                calledOnce(listeners, state')
        /\ (last'.arg = deselectPiece /\ state.selectedPieceId = NULL) => state' = state
        /\ (last'.arg = resetGame /\ state = createInitialState) => state' = state
        /\ IF rejectedIntent(state, last'.arg)
           THEN calledOnce({}, state')
           ELSE calledOnce(listeners, state')]_vars

\* ResetGame has just been dispatched, the session is in the initial state
\* as before any play, and both observers were called with it.
C37_Witness ==
    /\ last = Operation("dispatch", resetGame)
    /\ state = createInitialState
    /\ listeners = Observers
    /\ \A l \in Observers : calls[l] = <<createInitialState>>

\* The ids of the pieces of the player on turn in s, captured ones included.
idsOnTurn(s) ==
    {initialPieces[i].id : i \in {j \in DOMAIN initialPieces :
                                    initialPieces[j].playerId = s.currentPlayer}}

\* C38: selection is undone by deselection and both are idempotent in value:
\* for every reachable state s with no selection and every piece id of
\* currentPlayer, DeselectPiece applied to SelectPiece(id) applied to s is
\* equal to s; applying SelectPiece(id) twice gives a state equal to applying
\* it once; and applying DeselectPiece twice gives a state equal to applying
\* it once.
C38_SelectDeselectIdempotent ==
    state.selectedPieceId = NULL =>
        /\ \A pieceId \in idsOnTurn(state) :
                LET once == applyAction(state, selectPiece(pieceId))
                IN  /\ applyAction(once, deselectPiece) = state
                    /\ applyAction(once, selectPiece(pieceId)) = once
        /\ applyAction(applyAction(state, deselectPiece), deselectPiece) =
                applyAction(state, deselectPiece)

\* After a capture nothing is selected, and selecting a piece of the player
\* on turn that has moves changes validMoves and the tile tags, which
\* DeselectPiece takes back.
C38_Witness ==
    /\ state.selectedPieceId = NULL
    /\ state.capturedPieces # <<>>
    /\ \E pieceId \in idsOnTurn(state) :
            LET once == applyAction(state, selectPiece(pieceId))
            IN  /\ once.validMoves # <<>>
                /\ once.board.tiles # state.board.tiles
                /\ applyAction(once, deselectPiece) = state

\* The piece of the initial state that has the id of piece.
startOf(piece) ==
    initialPieces[CHOOSE i \in DOMAIN initialPieces : initialPieces[i].id = piece.id]

\* The ids of the pieces of s, active or captured, whose hasMoved is true.
movedIds(s) ==
    {s.pieces[i].id : i \in {j \in DOMAIN s.pieces : s.pieces[j].hasMoved}}
    \cup {s.capturedPieces[i].id :
            i \in {j \in DOMAIN s.capturedPieces : s.capturedPieces[j].hasMoved}}

\* The square two steps ahead of a pawn.
doubleStep(piece) ==
    Position(piece.position.x,
             piece.position.y + 2 * (IF piece.playerId = 1 THEN 1 ELSE -1))

\* C39: in every state reachable from the initial state by any sequence of
\* intents, every active piece with hasMoved = false stands on its starting
\* square, and a piece whose hasMoved is true keeps it true in every later
\* state until a ResetGame; hence the pawn double step is only ever
\* available from a pawn's starting rank.
C39_UnmovedOnStartingSquare ==
    /\ \A i \in DOMAIN state.pieces :
            LET piece == state.pieces[i]
            IN  /\ ~piece.hasMoved => piece.position = startOf(piece).position
                /\ (/\ piece.type = "pawn"
                    /\ doubleStep(piece) \in positionSet(getValidMoves(piece, state)))
                        => piece.position.y = (IF piece.playerId = 1 THEN 1 ELSE BoardHeight - 2)
    /\ \A action \in TurnIntents(state) :
            movedIds(state) \subseteq movedIds(applyAction(state, action))
    /\ movedIds(applyAction(state, resetGame)) = {}

\* After a capture, a pawn that has moved stands with the two squares ahead
\* of it empty and is not offered the double step, while a pawn that has not
\* moved is offered it.
C39_Witness ==
    /\ state.capturedPieces # <<>>
    /\ \E i, j \in DOMAIN state.pieces :
            LET moved == state.pieces[i]
                unmoved == state.pieces[j]
                ahead == Position(moved.position.x,
                                  (moved.position.y + doubleStep(moved).y) \div 2)
            IN  /\ moved.type = "pawn" /\ moved.hasMoved
                /\ moved.position # startOf(moved).position
                /\ isValidPosition(doubleStep(moved), state)
                /\ isEmpty(ahead, state) /\ isEmpty(doubleStep(moved), state)
                /\ doubleStep(moved) \notin positionSet(getValidMoves(moved, state))
                /\ unmoved.type = "pawn" /\ ~unmoved.hasMoved
                /\ doubleStep(unmoved) \in positionSet(getValidMoves(unmoved, state))

\* A king is among the captured pieces of s.
kingCaptured(s) ==
    \E i \in DOMAIN s.capturedPieces : s.capturedPieces[i].type = "king"

\* The board of s with no record of captures.
withoutCaptures(s) == [s EXCEPT !.capturedPieces = <<>>]

\* In s the player on turn selects and moves by the rules of the pieces, and
\* ends the turn.
playContinues(s) ==
    /\ \A i \in DOMAIN s.pieces :
            LET piece == s.pieces[i]
                selected == applyAction(s, selectPiece(piece.id))
            IN  IF piece.playerId = s.currentPlayer
                THEN /\ selected.selectedPieceId = piece.id
                     /\ selected.validMoves = getValidMoves(piece, withoutCaptures(s))
                     /\ \A to \in OnBoard :
                            LET moved == applyAction(s, movePiece(piece.id, to))
                            IN  IF to \in positionSet(selected.validMoves)
                                THEN /\ moved.currentPlayer = otherPlayer(s.currentPlayer)
                                     /\ activePiece(moved, piece.id) = <<movedPiece(piece, to)>>
                                ELSE moved = s
                ELSE selected = s
    /\ LegalMoveIntents(s) # {}
    /\ applyAction(s, endTurn).currentPlayer = otherPlayer(s.currentPlayer)

\* C40: a king is captured like any other piece: a state in which a king is
\* in capturedPieces is reachable from the initial state by accepted moves,
\* and in such a state the reducer keeps accepting SelectPiece, MovePiece and
\* EndTurn for both players under the same rules; no reachable state is
\* terminal.
C40_PlayContinuesAfterKingCapture ==
    /\ applyAction(state, endTurn) # state
    /\ kingCaptured(state) =>
            /\ playContinues(state)
            /\ playContinues(applyAction(state, endTurn))

\* The knight has taken the king that stepped out behind its pawn: the king
\* is the captured piece, the knight stands on its square, and the player who
\* lost the king is on turn.
C40_Witness ==
    /\ kingCaptured(state)
    /\ state.capturedPieces = <<[initialPieces[29] EXCEPT !.position = Position(4, 6),
                                                          !.hasMoved = TRUE]>>
    /\ activePiece(state, "w-knight-1") # <<>>
    /\ activePiece(state, "w-knight-1")[1].position = Position(4, 6)
    /\ state.currentPlayer = 2

=============================================================================
